---- MODULE Spec2Model ----
(***************************************************************************)
(* The reputation notary of robosats (src/reputation_notary/main.py):      *)
(* the NotaryStore tables, the handlers of NotaryService for receipts,     *)
(* reports and gift-wrapped handshake / stats messages, the badge          *)
(* publisher and the tier function.                                        *)
(*                                                                         *)
(* A handler runs on a single-threaded asyncio loop: it runs without       *)
(* interruption up to its next `await` on a relay send.  Every Store call  *)
(* of a handler comes before its first send, a badge is computed right     *)
(* before its own send, and a fan-out suspends after each send.  One       *)
(* action is therefore one uninterrupted run: an event's handler up to and *)
(* including the first send it starts, or the resumption of a suspended    *)
(* fan-out up to and including its next send.                              *)
(***************************************************************************)
EXTENDS Integers, Sequences, FiniteSets, TLC

----------------------------------------------------------------------------
(* Program constants *)

RECEIPT_KIND == 38384
BADGE_KIND == 38385
REPORT_KIND == 38386
GIFT_WRAP_KIND == 1059
TEXT_NOTE_KIND == 1

LINK_REQUEST_TYPE == "robosats.reputation.link.request.v1"
LINK_CONFIRM_TYPE == "robosats.reputation.link.confirm.v1"
STATS_REQUEST_TYPE == "robosats.reputation.stats.request.v1"
STATS_RESPONSE_TYPE == "robosats.reputation.stats.response.v1"

SECS_PER_DAY == 86400
EXPERIENCED_COUNT == 30
EXPERIENCED_DAYS == 120
INTERMEDIATE_COUNT == 10
INTERMEDIATE_DAYS == 90
BEGINNER_COUNT == 5

----------------------------------------------------------------------------
(* Bounds of the model *)

\* events that one run processes
MaxEvents == 3
\* suspended badge fan-outs at one time
MaxTasks == 1
\* days the clock advances during one run
MaxTicks == 1
\* events processed on top of a store that already holds many receipts
MaxBulkEvents == 1
\* events processed in a run that starts from receipts stored before the link
MaxEarlyEvents == 2
\* events the relay client delivers in a run of the service
MaxServiceEvents == 3
\* process_event tasks posted and not yet started
MaxScheduled == 2
\* fan-outs suspended at the same time in a run of the service
MaxServiceTasks == 2
\* send timeouts, send errors and Store errors in a run of the service
MaxFaults == 1
\* events the relay client delivers in a run that ends with stop()
MaxStopEvents == 2
\* events processed in a run that records the badge sent last
MaxQuiesceEvents == 2
\* events processed in a run that starts from a half-made handshake
MaxFinalizeEvents == 2
\* gift wraps whose unwrap is awaited at the same time
MaxUnwrapping == 2

----------------------------------------------------------------------------
(* Values *)

\* Python's None, for optional strings
NoVal == "<none>"

\* Python's None for Optional[int] is <<>>, an int v is <<v>>
NoInt == <<>>

\* Public keys.  "e1" stands for a lowercase 64-hex string, "E1" for the same
\* digits written in upper case, "zz" for a string that is not 64 hex digits.
Ephemerals == {"e1", "e2"}
Masters == {"m1", "m2"}
TrustedCoordinators == {"c1"}
UntrustedCoordinator == "cx"
ReplyKey == "q1"
HexStrings == Ephemerals \cup Masters \cup TrustedCoordinators
                \cup {UntrustedCoordinator, ReplyKey, "E1", "M1"}
NotHex == "zz"

\* str.lower() on the strings of the model
Lower(s) ==
    CASE s = "E1" -> "e1"
      [] s = "M1" -> "m1"
      [] s = "Testnet" -> "testnet"
      [] OTHER -> s

Networks == <<"mainnet", "testnet">>

\* The characters of a string, in units that the model does not split: a
\* pubkey or a plain label is one unit, the label "x:e1" is the label "x", a
\* colon and the text of the pubkey "e1".
Chars(str) == IF str = "x:e1" THEN <<"x", ":", "e1">> ELSE <<str>>

Max(a, b) == IF a >= b THEN a ELSE b

SetMin(S) == CHOOSE x \in S : \A y \in S : x <= y

\* Python's int(a / b) for b > 0: the quotient truncated toward zero
TruncDiv(a, b) == IF a >= 0 THEN a \div b ELSE -((-a) \div b)

RECURSIVE SeqsOf(_)
\* every ordering of a finite set
SeqsOf(S) ==
    IF S = {} THEN {<<>>}
    ELSE UNION {{<<x>> \o s : s \in SeqsOf(S \ {x})} : x \in S}

----------------------------------------------------------------------------
(* Pure functions of main.py *)

\* _is_hex_pubkey with a plausible slip: only the isinstance check is made
is_hex_pubkey_any_str(value) == value # NoVal

is_hex_pubkey(value) == value \in HexStrings

\* `if first_success_at:` is Python truthiness: None and 0 are both false
tier_from_success_count_and_age(success_count, first_success_at, now_secs) ==
    LET age_days ==
            IF first_success_at # NoInt /\ first_success_at[1] # 0
            THEN Max(0, TruncDiv(now_secs - first_success_at[1], SECS_PER_DAY))
            ELSE 0
    IN  IF success_count > EXPERIENCED_COUNT /\ age_days >= EXPERIENCED_DAYS
        THEN "experienced"
        ELSE IF success_count > INTERMEDIATE_COUNT /\ age_days >= INTERMEDIATE_DAYS
        THEN "intermediate"
        ELSE IF success_count > BEGINNER_COUNT
        THEN "beginner"
        ELSE "none"

\* first-match-wins tag lookup; a tag is a sequence of strings
get_tag_value(tags, key) ==
    LET hits == {i \in 1..Len(tags) : Len(tags[i]) >= 2 /\ tags[i][1] = key}
    IN  IF hits = {} THEN NoVal ELSE tags[SetMin(hits)][2]

\* `x or default` on an optional string: None and "" are false
OrDefault(x, default) == IF x = NoVal \/ x = "" THEN default ELSE x

----------------------------------------------------------------------------
(* NotaryStore: a database is a record of its five tables, each table a    *)
(* function from its primary key to the rest of the row.                   *)

EmptyTable == [k \in {} |-> NoVal]

EmptyDB ==
    [receipts |-> EmptyTable, reports |-> EmptyTable, links |-> EmptyTable,
     pending_link_requests |-> EmptyTable, pending_link_confirms |-> EmptyTable]

\* INSERT OR IGNORE on a primary key
InsertOrIgnore(table, key, row) ==
    IF key \in DOMAIN table THEN table ELSE (key :> row) @@ table

\* INSERT ... ON CONFLICT(key) DO UPDATE SET every column
InsertOrUpdate(table, key, row) ==
    (key :> row) @@ table

DeleteRow(table, key) ==
    [k \in DOMAIN table \ {key} |-> table[k]]

\* upsert_receipt with a plausible slip: INSERT OR REPLACE, which overwrites
\* the stored row
upsert_receipt_replace(db, receipt_key, coordinator_pubkey, buyer_pubkey, network, created_at) ==
    LET row == [coordinator_pubkey |-> coordinator_pubkey, buyer_pubkey |-> buyer_pubkey,
                network |-> network, created_at |-> created_at]
    IN  [db |-> [db EXCEPT !.receipts = InsertOrUpdate(db.receipts, receipt_key, row)],
         inserted |-> receipt_key \notin DOMAIN db.receipts]

\* upsert_receipt with a plausible slip: a conflict bumps the stored created_at
upsert_receipt_bump(db, receipt_key, coordinator_pubkey, buyer_pubkey, network, created_at) ==
    LET row == [coordinator_pubkey |-> coordinator_pubkey, buyer_pubkey |-> buyer_pubkey,
                network |-> network, created_at |-> created_at]
    IN  [db |-> [db EXCEPT !.receipts =
                    IF receipt_key \in DOMAIN db.receipts
                    THEN [db.receipts EXCEPT ![receipt_key].created_at = @ + 1]
                    ELSE (receipt_key :> row) @@ db.receipts],
         inserted |-> receipt_key \notin DOMAIN db.receipts]

upsert_receipt(db, receipt_key, coordinator_pubkey, buyer_pubkey, network, created_at) ==
    LET row == [coordinator_pubkey |-> coordinator_pubkey, buyer_pubkey |-> buyer_pubkey,
                network |-> network, created_at |-> created_at]
    IN  [db |-> [db EXCEPT !.receipts = InsertOrIgnore(db.receipts, receipt_key, row)],
         inserted |-> receipt_key \notin DOMAIN db.receipts]

\* upsert_report with a plausible slip: INSERT OR REPLACE, which overwrites the
\* stored row and reports a row count of 1
upsert_report_replace(db, coordinator_pubkey, buyer_pubkey, network, report, created_at) ==
    LET report_key == <<coordinator_pubkey, network, buyer_pubkey, report>>
        row == [coordinator_pubkey |-> coordinator_pubkey, buyer_pubkey |-> buyer_pubkey,
                network |-> network, report |-> report, created_at |-> created_at]
    IN  [db |-> [db EXCEPT !.reports = InsertOrUpdate(db.reports, report_key, row)],
         inserted |-> TRUE]

upsert_report(db, coordinator_pubkey, buyer_pubkey, network, report, created_at) ==
    LET report_key == <<coordinator_pubkey, network, buyer_pubkey, report>>
        row == [coordinator_pubkey |-> coordinator_pubkey, buyer_pubkey |-> buyer_pubkey,
                network |-> network, report |-> report, created_at |-> created_at]
    IN  [db |-> [db EXCEPT !.reports = InsertOrIgnore(db.reports, report_key, row)],
         inserted |-> report_key \notin DOMAIN db.reports]

get_master_for_ephemeral(db, ephemeral_pubkey) ==
    IF ephemeral_pubkey \in DOMAIN db.links
    THEN db.links[ephemeral_pubkey].master_pubkey
    ELSE NoVal

is_ephemeral_reported(db, ephemeral_pubkey) ==
    \E k \in DOMAIN db.reports : db.reports[k].buyer_pubkey = ephemeral_pubkey

\* is_master_reported with a plausible slip: no join with links, only reports
\* that name the master itself count
is_master_reported_direct(db, master_pubkey) ==
    \E k \in DOMAIN db.reports : db.reports[k].buyer_pubkey = master_pubkey

is_master_reported(db, master_pubkey) ==
    \E k \in DOMAIN db.reports : \E e \in DOMAIN db.links :
        /\ e = db.reports[k].buyer_pubkey
        /\ db.links[e].master_pubkey = master_pubkey

\* the rows come back in no stated order: the result is a set
list_ephemerals_for_master(db, master_pubkey) ==
    {e \in DOMAIN db.links : db.links[e].master_pubkey = master_pubkey}

upsert_pending_request(db, ephemeral_pubkey, master_pubkey, created_at) ==
    [db EXCEPT !.pending_link_requests =
        InsertOrUpdate(db.pending_link_requests, ephemeral_pubkey,
                       [master_pubkey |-> master_pubkey, created_at |-> created_at])]

\* upsert_pending_confirm with a plausible slip: INSERT OR IGNORE, no overwrite
upsert_pending_confirm_ignore(db, ephemeral_pubkey, master_pubkey, created_at) ==
    [db EXCEPT !.pending_link_confirms =
        InsertOrIgnore(db.pending_link_confirms, ephemeral_pubkey,
                       [master_pubkey |-> master_pubkey, created_at |-> created_at])]

upsert_pending_confirm(db, ephemeral_pubkey, master_pubkey, created_at) ==
    [db EXCEPT !.pending_link_confirms =
        InsertOrUpdate(db.pending_link_confirms, ephemeral_pubkey,
                       [master_pubkey |-> master_pubkey, created_at |-> created_at])]

\* the three writes of try_finalize_link for a master
FinalizeWrites(db, ephemeral_pubkey, master_pubkey, now_secs) ==
    [db EXCEPT
        !.links = InsertOrUpdate(db.links, ephemeral_pubkey,
                      [master_pubkey |-> master_pubkey, linked_at |-> now_secs]),
        !.pending_link_requests = DeleteRow(db.pending_link_requests, ephemeral_pubkey),
        !.pending_link_confirms = DeleteRow(db.pending_link_confirms, ephemeral_pubkey)]

BothPending(db, ephemeral_pubkey) ==
    /\ ephemeral_pubkey \in DOMAIN db.pending_link_requests
    /\ ephemeral_pubkey \in DOMAIN db.pending_link_confirms

\* try_finalize_link with a plausible slip: the two masters are not compared
\* and the request's master is linked
try_finalize_link_unchecked(db, ephemeral_pubkey, now_secs) ==
    IF ~BothPending(db, ephemeral_pubkey)
    THEN [db |-> db, master |-> NoVal]
    ELSE LET m == db.pending_link_requests[ephemeral_pubkey].master_pubkey
         IN  [db |-> FinalizeWrites(db, ephemeral_pubkey, m, now_secs), master |-> m]

\* try_finalize_link with a plausible slip: the pending confirm is not deleted
try_finalize_link_keeps_confirm(db, ephemeral_pubkey, now_secs) ==
    IF ~BothPending(db, ephemeral_pubkey)
    THEN [db |-> db, master |-> NoVal]
    ELSE LET m == db.pending_link_requests[ephemeral_pubkey].master_pubkey
         IN  IF m # db.pending_link_confirms[ephemeral_pubkey].master_pubkey
             THEN [db |-> db, master |-> NoVal]
             ELSE [db |-> [FinalizeWrites(db, ephemeral_pubkey, m, now_secs) EXCEPT
                            !.pending_link_confirms = db.pending_link_confirms],
                   master |-> m]

\* try_finalize_link with a plausible slip: halves that disagree are deleted
try_finalize_link_drops_mismatch(db, ephemeral_pubkey, now_secs) ==
    IF ~BothPending(db, ephemeral_pubkey)
    THEN [db |-> db, master |-> NoVal]
    ELSE LET m == db.pending_link_requests[ephemeral_pubkey].master_pubkey
         IN  IF m # db.pending_link_confirms[ephemeral_pubkey].master_pubkey
             THEN [db |-> [db EXCEPT
                            !.pending_link_requests =
                                DeleteRow(db.pending_link_requests, ephemeral_pubkey),
                            !.pending_link_confirms =
                                DeleteRow(db.pending_link_confirms, ephemeral_pubkey)],
                   master |-> NoVal]
             ELSE [db |-> FinalizeWrites(db, ephemeral_pubkey, m, now_secs), master |-> m]

\* try_finalize_link with a plausible slip: a Link is written once, halves for
\* an ephemeral that has a Link are left pending
try_finalize_link_first_link_only(db, ephemeral_pubkey, now_secs) ==
    IF ~BothPending(db, ephemeral_pubkey) \/ ephemeral_pubkey \in DOMAIN db.links
    THEN [db |-> db, master |-> NoVal]
    ELSE LET m == db.pending_link_requests[ephemeral_pubkey].master_pubkey
         IN  IF m # db.pending_link_confirms[ephemeral_pubkey].master_pubkey
             THEN [db |-> db, master |-> NoVal]
             ELSE [db |-> FinalizeWrites(db, ephemeral_pubkey, m, now_secs), master |-> m]

\* returns the database after the call and the master (NoVal for None)
try_finalize_link(db, ephemeral_pubkey, now_secs) ==
    IF \/ ephemeral_pubkey \notin DOMAIN db.pending_link_requests
       \/ ephemeral_pubkey \notin DOMAIN db.pending_link_confirms
    THEN [db |-> db, master |-> NoVal]
    ELSE
      LET master_from_request == db.pending_link_requests[ephemeral_pubkey].master_pubkey
          master_from_confirm == db.pending_link_confirms[ephemeral_pubkey].master_pubkey
      IN  IF master_from_request # master_from_confirm
          THEN [db |-> db, master |-> NoVal]
          ELSE [db |-> [db EXCEPT
                    !.links = InsertOrUpdate(db.links, ephemeral_pubkey,
                                  [master_pubkey |-> master_from_request,
                                   linked_at |-> now_secs]),
                    !.pending_link_requests =
                        DeleteRow(db.pending_link_requests, ephemeral_pubkey),
                    !.pending_link_confirms =
                        DeleteRow(db.pending_link_confirms, ephemeral_pubkey)],
                master |-> master_from_request]

MasterReceipts(db, master_pubkey, network) ==
    {k \in DOMAIN db.receipts :
        /\ db.receipts[k].network = network
        /\ db.receipts[k].buyer_pubkey \in DOMAIN db.links
        /\ db.links[db.receipts[k].buyer_pubkey].master_pubkey = master_pubkey}

\* success_count_for_master with a plausible slip: only receipts created since
\* the buyer was linked are counted
success_count_for_master_since_link(db, master_pubkey, network) ==
    Cardinality({k \in MasterReceipts(db, master_pubkey, network) :
                    db.receipts[k].created_at >= db.links[db.receipts[k].buyer_pubkey].linked_at})

\* success_count_for_master with a plausible slip: the WHERE clause does not
\* name the master, every linked buyer's receipts on the network are counted
success_count_for_master_any_master(db, master_pubkey, network) ==
    Cardinality({k \in DOMAIN db.receipts :
                    /\ db.receipts[k].network = network
                    /\ db.receipts[k].buyer_pubkey \in DOMAIN db.links})

success_count_for_master(db, master_pubkey, network) ==
    Cardinality(MasterReceipts(db, master_pubkey, network))

first_success_at_for_master(db, master_pubkey, network) ==
    LET rows == MasterReceipts(db, master_pubkey, network)
    IN  IF rows = {} THEN NoInt
        ELSE <<SetMin({db.receipts[k].created_at : k \in rows})>>

----------------------------------------------------------------------------
(* Events, as the relay delivers them *)

\* the tags of a receipt or report event; an absent tag is left out
TagList(d, p, net, report) ==
    (IF d = NoVal THEN <<>> ELSE << <<"d", d>> >>)
    \o (IF p = NoVal THEN <<>> ELSE << <<"p", p>> >>)
    \o (IF net = NoVal THEN <<>> ELSE << <<"net", net>> >>)
    \o (IF report = NoVal THEN <<>> ELSE << <<"report", report>> >>)

ReceiptEvent(author, d, p, net, created_at) ==
    [kind |-> RECEIPT_KIND, author |-> author, created_at |-> created_at,
     tags |-> TagList(d, p, net, NoVal)]

ReportEvent(author, p, net, report, created_at) ==
    [kind |-> REPORT_KIND, author |-> author, created_at |-> created_at,
     tags |-> TagList(NoVal, p, net, report)]

\* Receipts: two keys; d1 arrives with different buyers, networks and times
ReceiptEvents ==
    {ReceiptEvent("c1", "d1", "e1", "mainnet", 1),
     ReceiptEvent("c1", "d1", "e2", "testnet", 0),
     ReceiptEvent("c1", "d2", "e1", "mainnet", 0),
     ReceiptEvent("c1", "d2", "e2", "mainnet", 1),
     ReceiptEvent(UntrustedCoordinator, "d1", "e1", "mainnet", 1),
     ReceiptEvent("c1", NoVal, "e1", "mainnet", 1),
     ReceiptEvent("c1", "", "e1", "mainnet", 1),
     ReceiptEvent("c1", "d1", NoVal, "mainnet", 1),
     ReceiptEvent("c1", "d1", NotHex, "mainnet", 1),
     ReceiptEvent("c1", "d1", "E1", NoVal, 1),
     ReceiptEvent("c1", "d1", "e1", "Testnet", 1),
     ReceiptEvent("c1", "d1", "e1", "signet", 1)}

ReportEvents ==
    {ReportEvent("c1", "e1", "mainnet", NoVal, 1),
     ReportEvent("c1", "e2", "testnet", NoVal, 1),
     ReportEvent("c1", "e1", "mainnet", "spam", 1),
     ReportEvent("c1", "e1", "mainnet", "scammer", 0),
     ReportEvent(UntrustedCoordinator, "e1", "mainnet", NoVal, 1),
     ReportEvent("c1", NoVal, "mainnet", NoVal, 1),
     ReportEvent("c1", NotHex, "mainnet", NoVal, 1),
     ReportEvent("c1", "E1", NoVal, NoVal, 1),
     ReportEvent("c1", "e1", "signet", NoVal, 1)}

\* The JSON content of a rumor.  json is "object" for a JSON object, "array"
\* for valid JSON that is no object, "invalid" for text json.loads rejects and
\* "empty" for the empty string; a key the object lacks is NoVal (NoInt).
Payload(json, type, master_pubkey, ephemeral_pubkey, created_at, reply_pubkey, network, request_id) ==
    [json |-> json, type |-> type, master_pubkey |-> master_pubkey,
     ephemeral_pubkey |-> ephemeral_pubkey, created_at |-> created_at,
     reply_pubkey |-> reply_pubkey, network |-> network, request_id |-> request_id]

\* a request_id that is present and not a string
NotAString == "<int>"

RumorTime == 1

GiftWrap(unwraps, author, content) ==
    [kind |-> GIFT_WRAP_KIND, unwraps |-> unwraps,
     rumor |-> [author |-> author, created_at |-> RumorTime, content |-> content]]

LinkRequest(ephemeral, master, created_at) ==
    GiftWrap(TRUE, ephemeral,
        Payload("object", LINK_REQUEST_TYPE, master, NoVal, created_at, NoVal, NoVal, NoVal))

LinkConfirm(master, ephemeral, created_at) ==
    GiftWrap(TRUE, master,
        Payload("object", LINK_CONFIRM_TYPE, NoVal, ephemeral, created_at, NoVal, NoVal, NoVal))

StatsRequest(master, reply_pubkey, network, request_id) ==
    GiftWrap(TRUE, master,
        Payload("object", STATS_REQUEST_TYPE, NoVal, NoVal, NoInt, reply_pubkey,
                network, request_id))

HandshakeEvents ==
    {LinkRequest(e, m, NoInt) : e \in Ephemerals, m \in Masters}
    \cup {LinkConfirm(m, e, NoInt) : e \in Ephemerals, m \in Masters}
    \cup {LinkRequest("e1", "m1", <<2>>), LinkConfirm("m1", "e1", <<2>>)}

GiftWrapEvents ==
    HandshakeEvents
    \cup {LinkRequest("e1", NotHex, NoInt), LinkRequest("e1", NoVal, NoInt),
          LinkRequest("e1", "M1", <<0>>),
          LinkConfirm("m1", NotHex, NoInt), LinkConfirm("m1", "E1", NoInt),
          [LinkRequest("e1", "m1", NoInt) EXCEPT !.unwraps = FALSE],
          GiftWrap(TRUE, "e1", [LinkRequest("e1", "m1", NoInt).rumor.content
                                    EXCEPT !.json = "invalid"]),
          GiftWrap(TRUE, "e1", [LinkRequest("e1", "m1", NoInt).rumor.content
                                    EXCEPT !.json = "array"]),
          GiftWrap(TRUE, "e1", [LinkRequest("e1", "m1", NoInt).rumor.content
                                    EXCEPT !.json = "empty"]),
          GiftWrap(TRUE, "e1", [LinkRequest("e1", "m1", NoInt).rumor.content
                                    EXCEPT !.type = "chat"]),
          StatsRequest("m1", ReplyKey, NoVal, NoVal),
          StatsRequest("m1", ReplyKey, "Testnet", "r7"),
          StatsRequest("m2", ReplyKey, "mainnet", NoVal),
          StatsRequest("m1", ReplyKey, "signet", NoVal),
          StatsRequest("m1", NotHex, "mainnet", NoVal),
          StatsRequest("m1", ReplyKey, "mainnet", NotAString)}

OtherEvents ==
    {[kind |-> TEXT_NOTE_KIND, author |-> "c1", created_at |-> 1,
      tags |-> TagList("d1", "e1", "mainnet", NoVal)]}

----------------------------------------------------------------------------
(* NotaryService: what a handler does to the Store and which badges it     *)
(* goes on to publish.  A plan names the publish calls a handler makes     *)
(* after its Store calls: none, one ephemeral on some networks, or every   *)
(* ephemeral of a master on both networks.                                 *)

\* IsTrusted with a plausible slip: any well-formed pubkey passes
IsTrustedAnyHex(coordinator_pubkey) == is_hex_pubkey(coordinator_pubkey)

IsTrusted(coordinator_pubkey) == coordinator_pubkey \in TrustedCoordinators

NoPlan == [mode |-> "none", eph |-> NoVal, nets |-> <<>>, master |-> NoVal]

\* _publish_badges_for_new_link, and the publish calls of _process_receipt and
\* of _process_report for an unlinked buyer
EphemeralPlan(ephemeral_pubkey, nets, master_pubkey) ==
    [mode |-> "ephemeral", eph |-> ephemeral_pubkey, nets |-> nets, master |-> master_pubkey]

\* _publish_badges_for_master
MasterPlan(master_pubkey) ==
    [mode |-> "master", eph |-> NoVal, nets |-> Networks, master |-> master_pubkey]

\* The publish calls of a plan, in order: <<ephemeral, network, master>>.  The
\* list of a master's ephemerals is read once, before the first send.
PlanItems(db, plan) ==
    IF plan.mode = "none" THEN {<<>>}
    ELSE IF plan.mode = "ephemeral"
    THEN {[i \in 1..Len(plan.nets) |-> <<plan.eph, plan.nets[i], plan.master>>]}
    ELSE {[i \in 1..(2 * Len(order)) |->
                <<order[(i + 1) \div 2], Networks[((i - 1) % 2) + 1], plan.master>>] :
            order \in SeqsOf(list_ephemerals_for_master(db, plan.master))}

\* The outcome of a handler: the database it leaves, the publish calls it goes
\* on to make, the stats response it sends, and for the history what it
\* processed (op, the ephemeral and master concerned) and how it ended.
Outcome(db, op, how, ephemeral_pubkey, master_pubkey, plan) ==
    [db |-> db, op |-> op, how |-> how, eph |-> ephemeral_pubkey,
     master |-> master_pubkey, plan |-> plan, stats |-> <<>>]

\* a handler that returns before any Store call
Dropped(db, op, how) == Outcome(db, op, how, NoVal, NoVal, NoPlan)

\* _process_receipt with a plausible slip: a stored receipt republishes every
\* ephemeral of the master, as a report does
process_receipt_fan_out(db, event) ==
    LET coordinator_pubkey == Lower(event.author)
        d == get_tag_value(event.tags, "d")
        p == get_tag_value(event.tags, "p")
        network == Lower(OrDefault(get_tag_value(event.tags, "net"), "mainnet"))
    IN  IF ~IsTrusted(coordinator_pubkey)
        THEN Dropped(db, "receipt", "untrusted")
        ELSE IF d = NoVal \/ d = "" \/ p = NoVal \/ p = "" \/ ~is_hex_pubkey(p)
        THEN Dropped(db, "receipt", "malformed")
        ELSE
          LET buyer_pubkey == Lower(p)
              up == upsert_receipt(db, <<coordinator_pubkey, d>>, coordinator_pubkey,
                                   buyer_pubkey, network, event.created_at)
              master == get_master_for_ephemeral(up.db, buyer_pubkey)
          IN  IF ~up.inserted
              THEN Outcome(up.db, "receipt", "duplicate", buyer_pubkey, NoVal, NoPlan)
              ELSE Outcome(up.db, "receipt", "inserted", buyer_pubkey, master,
                           IF master # NoVal THEN MasterPlan(master) ELSE NoPlan)

\* _process_receipt with a plausible slip: the allowlist is consulted only
\* after the receipt is stored
process_receipt_late_gate(db, event) ==
    LET coordinator_pubkey == Lower(event.author)
        d == get_tag_value(event.tags, "d")
        p == get_tag_value(event.tags, "p")
        network == Lower(OrDefault(get_tag_value(event.tags, "net"), "mainnet"))
    IN  IF d = NoVal \/ d = "" \/ p = NoVal \/ p = "" \/ ~is_hex_pubkey(p)
        THEN Dropped(db, "receipt", "malformed")
        ELSE
          LET buyer_pubkey == Lower(p)
              up == upsert_receipt(db, <<coordinator_pubkey, d>>, coordinator_pubkey,
                                   buyer_pubkey, network, event.created_at)
              master == get_master_for_ephemeral(up.db, buyer_pubkey)
          IN  IF ~IsTrusted(coordinator_pubkey)
              THEN Outcome(up.db, "receipt", "untrusted", buyer_pubkey, NoVal, NoPlan)
              ELSE IF ~up.inserted
              THEN Outcome(up.db, "receipt", "duplicate", buyer_pubkey, NoVal, NoPlan)
              ELSE Outcome(up.db, "receipt", "inserted", buyer_pubkey, master,
                           IF master # NoVal
                           THEN EphemeralPlan(buyer_pubkey, <<network>>, master)
                           ELSE NoPlan)

process_receipt(db, event) ==
    LET coordinator_pubkey == Lower(event.author)
        d == get_tag_value(event.tags, "d")
        p == get_tag_value(event.tags, "p")
        network == Lower(OrDefault(get_tag_value(event.tags, "net"), "mainnet"))
    IN  IF ~IsTrusted(coordinator_pubkey)
        THEN Dropped(db, "receipt", "untrusted")
        ELSE IF d = NoVal \/ d = "" \/ p = NoVal \/ p = "" \/ ~is_hex_pubkey(p)
        THEN Dropped(db, "receipt", "malformed")
        ELSE
          LET buyer_pubkey == Lower(p)
              up == upsert_receipt(db, <<coordinator_pubkey, d>>, coordinator_pubkey,
                                   buyer_pubkey, network, event.created_at)
              master == get_master_for_ephemeral(up.db, buyer_pubkey)
          IN  IF ~up.inserted
              THEN Outcome(up.db, "receipt", "duplicate", buyer_pubkey, NoVal, NoPlan)
              ELSE Outcome(up.db, "receipt", "inserted", buyer_pubkey, master,
                           IF master # NoVal
                           THEN EphemeralPlan(buyer_pubkey, <<network>>, master)
                           ELSE NoPlan)

\* _process_report with a plausible slip: an unlinked buyer is republished on
\* the report's network only
process_report_own_network(db, event) ==
    LET coordinator_pubkey == Lower(event.author)
        p == get_tag_value(event.tags, "p")
        network == Lower(OrDefault(get_tag_value(event.tags, "net"), "mainnet"))
        report == OrDefault(get_tag_value(event.tags, "report"), "scammer")
    IN  IF ~IsTrusted(coordinator_pubkey)
        THEN Dropped(db, "report", "untrusted")
        ELSE IF p = NoVal \/ p = "" \/ ~is_hex_pubkey(p)
        THEN Dropped(db, "report", "malformed")
        ELSE
          LET buyer_pubkey == Lower(p)
              up == upsert_report(db, coordinator_pubkey, buyer_pubkey, network,
                                  report, event.created_at)
              master == get_master_for_ephemeral(up.db, buyer_pubkey)
          IN  IF ~up.inserted
              THEN Outcome(up.db, "report", "duplicate", buyer_pubkey, NoVal, NoPlan)
              ELSE Outcome(up.db, "report", "inserted", buyer_pubkey, master,
                           IF master # NoVal THEN MasterPlan(master)
                           ELSE EphemeralPlan(buyer_pubkey, <<network>>, NoVal))

\* _process_report with a plausible slip: the master is looked up first and a
\* report for an unlinked buyer is not stored
process_report_linked_only(db, event) ==
    LET coordinator_pubkey == Lower(event.author)
        p == get_tag_value(event.tags, "p")
        network == Lower(OrDefault(get_tag_value(event.tags, "net"), "mainnet"))
        report == OrDefault(get_tag_value(event.tags, "report"), "scammer")
    IN  IF ~IsTrusted(coordinator_pubkey)
        THEN Dropped(db, "report", "untrusted")
        ELSE IF p = NoVal \/ p = "" \/ ~is_hex_pubkey(p)
        THEN Dropped(db, "report", "malformed")
        ELSE IF get_master_for_ephemeral(db, Lower(p)) = NoVal
        THEN Dropped(db, "report", "unlinked")
        ELSE
          LET buyer_pubkey == Lower(p)
              up == upsert_report(db, coordinator_pubkey, buyer_pubkey, network,
                                  report, event.created_at)
              master == get_master_for_ephemeral(up.db, buyer_pubkey)
          IN  IF ~up.inserted
              THEN Outcome(up.db, "report", "duplicate", buyer_pubkey, NoVal, NoPlan)
              ELSE Outcome(up.db, "report", "inserted", buyer_pubkey, master, MasterPlan(master))

process_report(db, event) ==
    LET coordinator_pubkey == Lower(event.author)
        p == get_tag_value(event.tags, "p")
        network == Lower(OrDefault(get_tag_value(event.tags, "net"), "mainnet"))
        report == OrDefault(get_tag_value(event.tags, "report"), "scammer")
    IN  IF ~IsTrusted(coordinator_pubkey)
        THEN Dropped(db, "report", "untrusted")
        ELSE IF p = NoVal \/ p = "" \/ ~is_hex_pubkey(p)
        THEN Dropped(db, "report", "malformed")
        ELSE
          LET buyer_pubkey == Lower(p)
              up == upsert_report(db, coordinator_pubkey, buyer_pubkey, network,
                                  report, event.created_at)
              master == get_master_for_ephemeral(up.db, buyer_pubkey)
          IN  IF ~up.inserted
              THEN Outcome(up.db, "report", "duplicate", buyer_pubkey, NoVal, NoPlan)
              ELSE Outcome(up.db, "report", "inserted", buyer_pubkey, master,
                           IF master # NoVal THEN MasterPlan(master)
                           ELSE EphemeralPlan(buyer_pubkey, Networks, NoVal))

\* the same with a plausible slip: is_master_reported is not consulted and only
\* the newly linked ephemeral is republished
FinalizeAndPlanNewLinkOnly(db, op, ephemeral_pubkey, master_pubkey, now_secs) ==
    LET fin == try_finalize_link(db, ephemeral_pubkey, now_secs)
    IN  IF fin.master = NoVal
        THEN Outcome(fin.db, op, "pending", ephemeral_pubkey, master_pubkey, NoPlan)
        ELSE Outcome(fin.db, op, "finalized", ephemeral_pubkey, fin.master,
                     EphemeralPlan(ephemeral_pubkey, Networks, fin.master))

\* _process_gift_wrap from `master = self._store.try_finalize_link(...)` on
FinalizeAndPlan(db, op, ephemeral_pubkey, master_pubkey, now_secs) ==
    LET fin == try_finalize_link(db, ephemeral_pubkey, now_secs)
    IN  IF fin.master = NoVal
        THEN Outcome(fin.db, op, "pending", ephemeral_pubkey, master_pubkey, NoPlan)
        ELSE Outcome(fin.db, op, "finalized", ephemeral_pubkey, fin.master,
                     IF is_master_reported(fin.db, fin.master)
                     THEN MasterPlan(fin.master)
                     ELSE EphemeralPlan(ephemeral_pubkey, Networks, fin.master))

\* the gift-wrapped stats response handed to the relay client
send_stats_response(reply_pubkey, network, success_count, first_success_at, tier, reported, request_id, now_secs) ==
    [kind |-> GIFT_WRAP_KIND, receiver |-> Lower(reply_pubkey), p |-> Lower(reply_pubkey),
     payload |-> [type |-> STATS_RESPONSE_TYPE, network |-> network,
                  success_count |-> success_count, tier |-> tier, reported |-> reported,
                  created_at |-> now_secs, first_success_at |-> first_success_at,
                  request_id |-> request_id]]

\* _process_gift_wrap with a plausible slip: the type of request_id is not
\* checked
process_gift_wrap_any_request_id(db, event, now_secs) ==
    LET rumor == event.rumor
        sender_pubkey == Lower(rumor.author)
        payload == rumor.content
        msg_type == IF payload.json = "empty" THEN NoVal ELSE payload.type
        created_at == IF payload.json = "empty" \/ payload.created_at = NoInt
                         \/ payload.created_at[1] = 0
                      THEN rumor.created_at
                      ELSE payload.created_at[1]
    IN  IF ~event.unwraps
        THEN Dropped(db, "giftwrap", "unwrap failed")
        ELSE IF payload.json = "invalid"
        THEN Dropped(db, "giftwrap", "malformed")
        ELSE IF payload.json = "array"
        THEN Dropped(db, "giftwrap", "raised")
        ELSE IF msg_type = LINK_REQUEST_TYPE
        THEN IF ~is_hex_pubkey(payload.master_pubkey)
             THEN Dropped(db, "giftwrap", "malformed")
             ELSE FinalizeAndPlan(
                    upsert_pending_request(db, sender_pubkey,
                                           Lower(payload.master_pubkey), created_at),
                    "request", sender_pubkey, Lower(payload.master_pubkey), now_secs)
        ELSE IF msg_type = LINK_CONFIRM_TYPE
        THEN IF ~is_hex_pubkey(payload.ephemeral_pubkey)
             THEN Dropped(db, "giftwrap", "malformed")
             ELSE FinalizeAndPlan(
                    upsert_pending_confirm(db, Lower(payload.ephemeral_pubkey),
                                           sender_pubkey, created_at),
                    "confirm", Lower(payload.ephemeral_pubkey), sender_pubkey, now_secs)
        ELSE IF msg_type = STATS_REQUEST_TYPE
        THEN LET network == Lower(OrDefault(payload.network, "mainnet"))
                 count == success_count_for_master(db, sender_pubkey, network)
                 first_success_at == first_success_at_for_master(db, sender_pubkey, network)
                 reported == is_master_reported(db, sender_pubkey)
                 tier == tier_from_success_count_and_age(count, first_success_at, now_secs)
             IN  IF \/ ~is_hex_pubkey(payload.reply_pubkey)
                    \/ network \notin {"mainnet", "testnet"}
                 THEN Dropped(db, "giftwrap", "malformed")
                 ELSE [Outcome(db, "stats", "sent", NoVal, sender_pubkey, NoPlan) EXCEPT
                        !.stats = <<send_stats_response(payload.reply_pubkey, network,
                                        count, first_success_at, tier, reported,
                                        payload.request_id, now_secs)>>]
        ELSE Dropped(db, "giftwrap", "unknown type")

process_gift_wrap(db, event, now_secs) ==
    LET rumor == event.rumor
        sender_pubkey == Lower(rumor.author)
        payload == rumor.content
        msg_type == IF payload.json = "empty" THEN NoVal ELSE payload.type
        created_at == IF payload.json = "empty" \/ payload.created_at = NoInt
                         \/ payload.created_at[1] = 0
                      THEN rumor.created_at
                      ELSE payload.created_at[1]
    IN  IF ~event.unwraps
        THEN Dropped(db, "giftwrap", "unwrap failed")
        ELSE IF payload.json = "invalid"
        THEN Dropped(db, "giftwrap", "malformed")
        ELSE IF payload.json = "array"
        THEN Dropped(db, "giftwrap", "raised")
        ELSE IF msg_type = LINK_REQUEST_TYPE
        THEN IF ~is_hex_pubkey(payload.master_pubkey)
             THEN Dropped(db, "giftwrap", "malformed")
             ELSE FinalizeAndPlan(
                    upsert_pending_request(db, sender_pubkey,
                                           Lower(payload.master_pubkey), created_at),
                    "request", sender_pubkey, Lower(payload.master_pubkey), now_secs)
        ELSE IF msg_type = LINK_CONFIRM_TYPE
        THEN IF ~is_hex_pubkey(payload.ephemeral_pubkey)
             THEN Dropped(db, "giftwrap", "malformed")
             ELSE FinalizeAndPlan(
                    upsert_pending_confirm(db, Lower(payload.ephemeral_pubkey),
                                           sender_pubkey, created_at),
                    "confirm", Lower(payload.ephemeral_pubkey), sender_pubkey, now_secs)
        ELSE IF msg_type = STATS_REQUEST_TYPE
        THEN LET network == Lower(OrDefault(payload.network, "mainnet"))
                 count == success_count_for_master(db, sender_pubkey, network)
                 first_success_at == first_success_at_for_master(db, sender_pubkey, network)
                 reported == is_master_reported(db, sender_pubkey)
                 tier == tier_from_success_count_and_age(count, first_success_at, now_secs)
             IN  IF \/ ~is_hex_pubkey(payload.reply_pubkey)
                    \/ network \notin {"mainnet", "testnet"}
                    \/ payload.request_id = NotAString
                 THEN Dropped(db, "giftwrap", "malformed")
                 ELSE [Outcome(db, "stats", "sent", NoVal, sender_pubkey, NoPlan) EXCEPT
                        !.stats = <<send_stats_response(payload.reply_pubkey, network,
                                        count, first_success_at, tier, reported,
                                        payload.request_id, now_secs)>>]
        ELSE Dropped(db, "giftwrap", "unknown type")

\* process_event with a plausible slip: no try/except around the handlers
CatchNothing(out) == out

\* `except Exception` of process_event: a handler that raised (how = "raised")
\* ends as a logged failure
Catch(out) == IF out.how = "raised" THEN [out EXCEPT !.how = "caught"] ELSE out

process_event(db, event, now_secs) ==
    Catch(IF event.kind = RECEIPT_KIND THEN process_receipt(db, event)
          ELSE IF event.kind = REPORT_KIND THEN process_report(db, event)
          ELSE IF event.kind = GIFT_WRAP_KIND THEN process_gift_wrap(db, event, now_secs)
          ELSE Dropped(db, "other", "no handler"))

\* _publish_badge_for_ephemeral with a plausible slip: a timeout is raised on
after_send_timeout_raises(result, items) == IF result = "ok" THEN items ELSE <<>>

\* The publish calls a fan-out still makes once the send it waited for has
\* returned: asyncio.TimeoutError is absorbed in _publish_badge_for_ephemeral,
\* any other exception leaves the loop.
after_send(result, items) == IF result = "error" THEN <<>> ELSE items

\* NotaryNotificationHandler.handle with a plausible slip: process_event is
\* awaited in the callback
handle_inline(queue, event, posted) ==
    [scheduled |-> queue, inline |-> <<event>>, returns |-> FALSE]

\* NotaryNotificationHandler.handle: posted tells whether call_soon_threadsafe
\* accepted the callback; if it raised, asyncio.create_task schedules the
\* coroutine.  Either way the coroutine is queued and not run.
handle(queue, event, posted) ==
    [scheduled |-> Append(queue, event), inline |-> <<>>, returns |-> FALSE]

\* the d tag with a plausible slip: the network is left out
badge_d_tag_no_network(network, ephemeral_pubkey) == Chars(ephemeral_pubkey)

\* f"{network}:{ephemeral_pubkey}"
badge_d_tag(network, ephemeral_pubkey) ==
    Chars(network) \o <<":">> \o Chars(ephemeral_pubkey)

\* The badge event _publish_badge_for_ephemeral signs and sends: its kind,
\* content and tags, and beside them the arguments and computed values they
\* were built from (p, net, tier, reported, d, v).
publish_badge_for_ephemeral(db, ephemeral_arg, network_arg, master_pubkey, now_secs) ==
    LET ephemeral_pubkey == Lower(ephemeral_arg)
        network == Lower(network_arg)
        count == IF master_pubkey # NoVal
                 THEN success_count_for_master(db, master_pubkey, network) ELSE 0
        first_success_at == IF master_pubkey # NoVal
                            THEN first_success_at_for_master(db, master_pubkey, network)
                            ELSE NoInt
        reported == IF master_pubkey # NoVal
                    THEN is_master_reported(db, master_pubkey)
                    ELSE is_ephemeral_reported(db, ephemeral_pubkey)
        tier == IF master_pubkey # NoVal
                THEN tier_from_success_count_and_age(count, first_success_at, now_secs)
                ELSE "none"
    IN  [kind |-> BADGE_KIND, content |-> "",
         tags |-> << <<"d", badge_d_tag(network, ephemeral_pubkey)>>,
                     <<"p", ephemeral_pubkey>>, <<"tier", tier>>, <<"net", network>>,
                     <<"v", "1">> >>
                  \o (IF reported THEN << <<"reported", "1">> >> ELSE <<>>),
         d |-> badge_d_tag(network, ephemeral_pubkey),
         p |-> ephemeral_pubkey, tier |-> tier, net |-> network, v |-> "1",
         reported |-> reported]

----------------------------------------------------------------------------
(* State *)

VARIABLES
    receipts,               \* table receipts: receipt_key -> row
    reports,                \* table reports: report_key -> row
    links,                  \* table links: ephemeral_pubkey -> row
    pending_link_requests,  \* table pending_link_requests: ephemeral_pubkey -> row
    pending_link_confirms,  \* table pending_link_confirms: ephemeral_pubkey -> row
    now,                    \* Timestamp.now(), in seconds
    tasks,                  \* suspended fan-outs: the publish calls each has left
    outbox,                 \* the events the latest step handed to client.send_event
    budget,                 \* events and clock ticks the run may still take
    last,                   \* history: what the latest step processed and how it ended
    seen_requests,          \* history: <<ephemeral, master>> of the link requests processed
    seen_confirms,          \* history: <<ephemeral, master>> of the link confirms processed
    tier_call,              \* one call of the tier function: arguments and result
    scheduled,              \* process_event tasks that handle() posted and that have not started
    faults,                 \* history: failures (send timeouts, exceptions) met so far
    unwrap,                 \* whether from_gift_wrap returns an awaitable in this build, and
                            \* the gift wraps whose unwrap is awaited, in the order started
    shutdown,               \* stop(): its position, the calls it has made in order, and
                            \* those of them that raised
    published               \* history, kept in the runs that ask for it: the tier and
                            \* reported flag of the badge sent last for (ephemeral, network)

store == <<receipts, reports, links, pending_link_requests, pending_link_confirms>>

vars == <<receipts, reports, links, pending_link_requests, pending_link_confirms,
          now, tasks, outbox, budget, last, seen_requests, seen_confirms, tier_call,
          scheduled, faults, unwrap, shutdown, published>>

\* the database the tables make up
DB ==
    [receipts |-> receipts, reports |-> reports, links |-> links,
     pending_link_requests |-> pending_link_requests,
     pending_link_confirms |-> pending_link_confirms]

SetDB(db) ==
    /\ receipts' = db.receipts
    /\ reports' = db.reports
    /\ links' = db.links
    /\ pending_link_requests' = db.pending_link_requests
    /\ pending_link_confirms' = db.pending_link_confirms

\* `last`: op and how as in Outcome; eph and master are the ephemeral and master
\* the event concerned; call is the master argument of the step's publish call
\* (<<>> when the step made none); origin is <<op, ephemeral>> of the handler
\* whose publish call it is (<<>> when the step made none); send is how the
\* send that the step waited for returned ("none" when it waited for none)
Note(op, how, ephemeral_pubkey, master_pubkey, call) ==
    [op |-> op, how |-> how, eph |-> ephemeral_pubkey, master |-> master_pubkey,
     call |-> call, origin |-> <<>>, send |-> "none"]

Idle == Note("none", "none", NoVal, NoVal, <<>>)

NoTierCall == [success_count |-> 0, first_success_at |-> NoInt, now |-> 0, result |-> NoVal]

\* nostr_sdk ships from_gift_wrap both as a plain call and as a coroutine
\* (inspect.isawaitable decides at run time); which one this build has is not
\* known before the first gift wrap is unwrapped
NoUnwrap == [awaitable |-> "unknown", waiting |-> <<>>]

\* stop() has not been called
NotStopping == [pc |-> "running", calls |-> <<>>, raised |-> {}]

\* the handshake halves that were processed to make the links of db
LinkPairs(db) == {<<e, db.links[e].master_pubkey>> : e \in DOMAIN db.links}

\* the halves that a pending table of db holds
PendingPairs(table) == {<<e, table[e].master_pubkey>> : e \in DOMAIN table}

\* `published` when the run keeps no such history
NotTracked == [on |-> FALSE, badge |-> EmptyTable]

\* `published` once the events of box were handed to client.send_event: a
\* badge replaces the badge sent before for its (ephemeral, network)
Recorded(pub, box) ==
    IF ~pub.on \/ box = <<>> \/ box[1].kind # BADGE_KIND THEN pub
    ELSE [pub EXCEPT !.badge = (<<box[1].p, box[1].net>>
                                  :> [tier |-> box[1].tier, reported |-> box[1].reported]) @@ @]

InitTracking(db, clock, events, ticks, call, sent) ==
    /\ receipts = db.receipts
    /\ reports = db.reports
    /\ links = db.links
    /\ pending_link_requests = db.pending_link_requests
    /\ pending_link_confirms = db.pending_link_confirms
    /\ now = clock
    /\ tasks = <<>>
    /\ outbox = <<>>
    /\ budget = [events |-> events, ticks |-> ticks]
    /\ last = Idle
    /\ seen_requests = LinkPairs(db) \cup PendingPairs(db.pending_link_requests)
    /\ seen_confirms = LinkPairs(db) \cup PendingPairs(db.pending_link_confirms)
    /\ tier_call = call
    /\ scheduled = <<>>
    /\ faults = 0
    /\ unwrap = NoUnwrap
    /\ shutdown = NotStopping
    /\ published = sent

InitWith(db, clock, events, ticks, call) ==
    InitTracking(db, clock, events, ticks, call, NotTracked)

\* a fresh database file
Init == InitWith(EmptyDB, 1, MaxEvents, MaxTicks, NoTierCall)

----------------------------------------------------------------------------
(* Actions *)

\* the publish calls a handler has left, each with the handler it belongs to
Tagged(items, origin) == [i \in 1..Len(items) |-> Append(items[i], origin)]

\* A handler from its Store calls on: the first publish call of the plan
\* computes its badge and starts the send; the calls left wait for it.
Effects(out, items) ==
    /\ SetDB(out.db)
    /\ outbox' = IF out.stats # <<>> THEN out.stats
                 ELSE IF items = <<>> THEN <<>>
                 ELSE <<publish_badge_for_ephemeral(out.db, items[1][1], items[1][2],
                                                    items[1][3], now)>>
    /\ published' = Recorded(published, outbox')
    /\ tasks' = IF Len(items) > 1
                THEN Append(tasks, Tagged(Tail(items), <<out.op, out.eph>>))
                ELSE tasks
    /\ last' = [Note(out.op, out.how, out.eph, out.master,
                     IF items = <<>> THEN <<>> ELSE <<items[1][3]>>)
                    EXCEPT !.origin = IF items = <<>> THEN <<>> ELSE <<out.op, out.eph>>]
    /\ UNCHANGED <<now, tier_call>>

\* process_event run as soon as the event arrives
Handle(out, items) ==
    /\ budget.events > 0
    /\ budget' = [budget EXCEPT !.events = @ - 1]
    /\ Len(items) > 1 => Len(tasks) < MaxTasks
    /\ Effects(out, items)
    /\ UNCHANGED <<scheduled, faults, unwrap, shutdown>>

ProcessReceipt(event) ==
    /\ LET out == process_event(DB, event, now)
       IN  \E items \in PlanItems(out.db, out.plan) : Handle(out, items)
    /\ UNCHANGED <<seen_requests, seen_confirms>>

ProcessReport(event) ==
    /\ LET out == process_event(DB, event, now)
       IN  \E items \in PlanItems(out.db, out.plan) : Handle(out, items)
    /\ UNCHANGED <<seen_requests, seen_confirms>>

ProcessGiftWrap(event) ==
    LET out == process_event(DB, event, now)
    IN  /\ \E items \in PlanItems(out.db, out.plan) : Handle(out, items)
        /\ seen_requests' = IF out.op = "request"
                            THEN seen_requests \cup {<<out.eph, out.master>>}
                            ELSE seen_requests
        /\ seen_confirms' = IF out.op = "confirm"
                            THEN seen_confirms \cup {<<out.eph, out.master>>}
                            ELSE seen_confirms

\* process_event on a kind it has no handler for
ProcessOther(event) ==
    /\ event.kind \notin {RECEIPT_KIND, REPORT_KIND, GIFT_WRAP_KIND}
    /\ Handle(process_event(DB, event, now), <<>>)
    /\ UNCHANGED <<seen_requests, seen_confirms>>

\* A send of a suspended fan-out returns: the loop makes its next publish call,
\* which reads the Store as it is now.
ResumeTask(i) ==
    /\ i \in 1..Len(tasks)
    /\ LET items == tasks[i]
           rest == [j \in 1..(Len(tasks) - 1) |-> IF j < i THEN tasks[j] ELSE tasks[j + 1]]
       IN  /\ outbox' = <<publish_badge_for_ephemeral(DB, items[1][1], items[1][2],
                                                      items[1][3], now)>>
           /\ published' = Recorded(published, outbox')
           /\ tasks' = IF Len(items) > 1 THEN [tasks EXCEPT ![i] = Tail(items)] ELSE rest
           /\ last' = [Note("resume", "sent", items[1][1], items[1][3], <<items[1][3]>>)
                           EXCEPT !.origin = items[1][4], !.send = "ok"]
    /\ UNCHANGED <<store, now, budget, seen_requests, seen_confirms, tier_call,
                   scheduled, faults, unwrap, shutdown>>

\* a day passes with no event
Tick ==
    /\ budget.ticks > 0
    /\ budget' = [budget EXCEPT !.ticks = @ - 1]
    /\ now' = now + SECS_PER_DAY
    /\ outbox' = <<>>
    /\ last' = Idle
    /\ UNCHANGED <<store, tasks, seen_requests, seen_confirms, tier_call, scheduled, faults,
                   unwrap, shutdown, published>>

Next ==
    \/ \E event \in ReceiptEvents : ProcessReceipt(event)
    \/ \E event \in ReportEvents : ProcessReport(event)
    \/ \E event \in GiftWrapEvents : ProcessGiftWrap(event)
    \/ \E event \in OtherEvents : ProcessOther(event)
    \/ \E i \in 1..MaxTasks : ResumeTask(i)
    \/ Tick

Spec == Init /\ [][Next]_vars

----------------------------------------------------------------------------
(* The service with its callback bridge and its failures.  handle() posts   *)
(* process_event tasks, which start in the order posted; a send that a      *)
(* fan-out waits for returns, times out or raises; a Store call raises.     *)
(* These runs start from the store that the handshakes of e1 and e2 with    *)
(* m1 leave behind.                                                         *)

ServiceDB ==
    [EmptyDB EXCEPT
        !.links = ("e1" :> [master_pubkey |-> "m1", linked_at |-> 1])
                  @@ ("e2" :> [master_pubkey |-> "m1", linked_at |-> 1])]

ServiceEvents ==
    {ReportEvent("c1", "e1", "mainnet", NoVal, 1),
     ReceiptEvent("c1", "d1", "e1", "mainnet", 1),
     LinkRequest("e1", "m2", NoInt),
     LinkConfirm("m2", "e1", NoInt),
     GiftWrap(TRUE, "e1", [LinkRequest("e1", "m1", NoInt).rumor.content
                               EXCEPT !.json = "array"])}
    \cup OtherEvents

InitService == InitWith(ServiceDB, 1, MaxServiceEvents, 0, NoTierCall)

\* the handshake halves an outcome adds to the history
SeeHalves(out) ==
    /\ seen_requests' = IF out.op = "request"
                        THEN seen_requests \cup {<<out.eph, out.master>>}
                        ELSE seen_requests
    /\ seen_confirms' = IF out.op = "confirm"
                        THEN seen_confirms \cup {<<out.eph, out.master>>}
                        ELSE seen_confirms

\* the relay client awaits handle(relay_url, subscription_id, event)
Deliver(event) ==
    /\ budget.events > 0
    /\ Len(scheduled) < MaxScheduled
    /\ budget' = [budget EXCEPT !.events = @ - 1]
    /\ \E posted \in BOOLEAN :
        LET h == handle(scheduled, event, posted)
        IN  /\ scheduled' = h.scheduled
            /\ IF h.inline = <<>>
               THEN /\ outbox' = <<>>
                    /\ last' = Note("handle",
                                    IF h.returns THEN "returned True" ELSE "returned False",
                                    NoVal, NoVal, <<>>)
                    /\ UNCHANGED <<store, tasks, now, tier_call, seen_requests, seen_confirms,
                                   published>>
               ELSE LET out == process_event(DB, h.inline[1], now)
                    IN  /\ \E items \in PlanItems(out.db, out.plan) : Effects(out, items)
                        /\ SeeHalves(out)
    /\ UNCHANGED <<faults, unwrap, shutdown>>

\* whether `maybe_unwrapped` is awaitable, given what the run has seen of the
\* build so far
unwrap_awaitable(known) == IF known = "unknown" THEN BOOLEAN ELSE {known = "yes"}

\* The event loop starts the process_event task posted first.  A gift wrap
\* whose unwrap is awaitable suspends there, before any Store call; any other
\* task runs to its first send or to its end.
StartTask ==
    /\ scheduled # <<>>
    /\ LET event == Head(scheduled)
           out == process_event(DB, event, now)
       IN  IF event.kind # GIFT_WRAP_KIND
           THEN /\ \E items \in PlanItems(out.db, out.plan) :
                     /\ Len(items) > 1 => Len(tasks) < MaxServiceTasks
                     /\ Effects(out, items)
                /\ SeeHalves(out)
                /\ faults' = IF out.how = "caught" THEN faults + 1 ELSE faults
                /\ UNCHANGED unwrap
           ELSE \E awaitable \in unwrap_awaitable(unwrap.awaitable) :
                  IF awaitable
                  THEN /\ Len(unwrap.waiting) < MaxUnwrapping
                       /\ unwrap' = [awaitable |-> "yes",
                                     waiting |-> Append(unwrap.waiting, event)]
                       /\ outbox' = <<>>
                       /\ last' = Note("unwrap", "suspended", NoVal, NoVal, <<>>)
                       /\ UNCHANGED <<store, tasks, now, tier_call, seen_requests,
                                      seen_confirms, faults, published>>
                  ELSE /\ \E items \in PlanItems(out.db, out.plan) :
                            /\ Len(items) > 1 => Len(tasks) < MaxServiceTasks
                            /\ Effects(out, items)
                       /\ SeeHalves(out)
                       /\ faults' = IF out.how = "caught" THEN faults + 1 ELSE faults
                       /\ unwrap' = [unwrap EXCEPT !.awaitable = "no"]
    /\ scheduled' = Tail(scheduled)
    /\ UNCHANGED <<budget, shutdown>>

\* the awaited unwrap of gift wrap i returns (or raises): its task goes on to
\* its Store calls and to its first send or its end
FinishUnwrap(i) ==
    /\ i \in 1..Len(unwrap.waiting)
    /\ LET out == process_event(DB, unwrap.waiting[i], now)
       IN  /\ \E items \in PlanItems(out.db, out.plan) :
                /\ Len(items) > 1 => Len(tasks) < MaxServiceTasks
                /\ Effects(out, items)
           /\ SeeHalves(out)
           /\ faults' = IF out.how = "caught" THEN faults + 1 ELSE faults
    /\ unwrap' = [unwrap EXCEPT !.waiting =
                    [j \in 1..(Len(unwrap.waiting) - 1) |->
                        IF j < i THEN unwrap.waiting[j] ELSE unwrap.waiting[j + 1]]]
    /\ UNCHANGED <<budget, scheduled, shutdown>>

\* the first Store call of the process_event task posted first raises (a
\* locked or full database): nothing is written, process_event logs it
StoreError ==
    /\ scheduled # <<>>
    /\ faults < MaxFaults
    /\ Head(scheduled).kind = GIFT_WRAP_KIND => unwrap.awaitable = "no"
    /\ LET normal == process_event(DB, Head(scheduled), now)
       IN  /\ normal.how \in {"inserted", "duplicate", "pending", "finalized", "sent"}
           /\ Effects(Catch(Dropped(DB, normal.op, "raised")), <<>>)
    /\ scheduled' = Tail(scheduled)
    /\ faults' = faults + 1
    /\ UNCHANGED <<budget, seen_requests, seen_confirms, unwrap, shutdown>>

\* the send a suspended fan-out waits for times out or raises
SendFails(i, result) ==
    /\ i \in 1..Len(tasks)
    /\ faults < MaxFaults
    /\ LET waiting == tasks[i]
           items == after_send(result, waiting)
           rest == [j \in 1..(Len(tasks) - 1) |-> IF j < i THEN tasks[j] ELSE tasks[j + 1]]
       IN  IF items = <<>>
           THEN /\ outbox' = <<>>
                /\ tasks' = rest
                /\ last' = [Note("resume", Catch(Dropped(DB, "resume", "raised")).how,
                                 waiting[1][1], waiting[1][3], <<>>)
                               EXCEPT !.origin = waiting[1][4], !.send = result]
           ELSE /\ outbox' = <<publish_badge_for_ephemeral(DB, items[1][1], items[1][2],
                                                           items[1][3], now)>>
                /\ tasks' = IF Len(items) > 1 THEN [tasks EXCEPT ![i] = Tail(items)] ELSE rest
                /\ last' = [Note("resume", "sent", items[1][1], items[1][3], <<items[1][3]>>)
                               EXCEPT !.origin = items[1][4], !.send = result]
    /\ published' = Recorded(published, outbox')
    /\ faults' = faults + 1
    /\ UNCHANGED <<store, now, budget, seen_requests, seen_confirms, tier_call, scheduled,
                   unwrap, shutdown>>

NextService ==
    \/ \E event \in ServiceEvents : Deliver(event)
    \/ StartTask
    \/ \E i \in 1..MaxUnwrapping : FinishUnwrap(i)
    \/ StoreError
    \/ \E i \in 1..MaxServiceTasks : ResumeTask(i)
    \/ \E i \in 1..MaxServiceTasks : \E result \in {"timeout", "error"} : SendFails(i, result)

SpecService == InitService /\ [][NextService]_vars

----------------------------------------------------------------------------
(* Shutdown.  _run awaits stop() once the stop event is set.  stop() runs   *)
(* on the event loop beside the per-event tasks: it suspends at            *)
(* unsubscribe_all and at disconnect, and the tasks go on at their own     *)
(* suspension points until the Store is closed; _run returns right after.  *)

InitStop == InitWith(ServiceDB, 1, MaxStopEvents, 0, NoTierCall)

\* stop() with a plausible slip: no try/except around the relay calls
stop_next_no_except(pc, result) ==
    IF result = "raises" THEN "raised"
    ELSE IF pc = "unsubscribe_all" THEN "disconnect" ELSE "close"

\* The call stop() makes next once the call it awaited at pc has returned or
\* raised: `except Exception: pass` after unsubscribe_all leads to
\* disconnect, and after disconnect to self._store.close().
stop_next(pc, result) ==
    IF pc = "unsubscribe_all" THEN "disconnect" ELSE "close"

\* stop() up to its first await: Task.cancel() on the notifications task, if
\* handle_notifications returned an awaitable in this build (cancel() only
\* requests the cancellation and does not raise), then unsubscribe_all()
BeginStop ==
    /\ shutdown.pc = "running"
    /\ \E notifications_task \in BOOLEAN :
         shutdown' = [pc |-> "unsubscribe_all",
                      calls |-> (IF notifications_task THEN <<"cancel">> ELSE <<>>)
                                  \o <<"unsubscribe_all">>,
                      raised |-> {}]
    /\ outbox' = <<>>
    /\ last' = Note("stop", "suspended", NoVal, NoVal, <<>>)
    /\ UNCHANGED <<store, now, tasks, budget, seen_requests, seen_confirms, tier_call,
                   scheduled, faults, unwrap, published>>

\* the relay call stop() awaits returns or raises; stop() makes its next call,
\* and after self._store.close() it returns
StopStep(result) ==
    /\ shutdown.pc \in {"unsubscribe_all", "disconnect"}
    /\ LET next == stop_next(shutdown.pc, result)
       IN  /\ shutdown' = [pc |-> IF next = "close" THEN "stopped" ELSE next,
                            calls |-> IF next = "raised" THEN shutdown.calls
                                      ELSE Append(shutdown.calls, next),
                            raised |-> IF result = "raises"
                                       THEN shutdown.raised \cup {shutdown.pc}
                                       ELSE shutdown.raised]
           /\ last' = Note("stop", IF next = "close" THEN "returned"
                                    ELSE IF next = "raised" THEN "raised" ELSE "suspended",
                            NoVal, NoVal, <<>>)
    /\ outbox' = <<>>
    /\ UNCHANGED <<store, now, tasks, budget, seen_requests, seen_confirms, tier_call,
                   scheduled, faults, unwrap, published>>

\* the loop runs the service until stop() has returned or raised
NextStop ==
    \/ shutdown.pc \notin {"stopped", "raised"} /\ NextService
    \/ BeginStop
    \/ \E result \in {"ok", "raises"} : StopStep(result)

SpecStop == InitStop /\ [][NextStop]_vars

----------------------------------------------------------------------------
(* A store that already holds many receipts.  Reaching the tier thresholds *)
(* takes more than 30 receipts of one master; these runs start from the    *)
(* store that k receipt events for e1, linked to m1, leave behind, one     *)
(* second short of the age a threshold asks for.                           *)

BulkCounts == {BEGINNER_COUNT, INTERMEDIATE_COUNT, INTERMEDIATE_COUNT + 1,
               EXPERIENCED_COUNT, EXPERIENCED_COUNT + 1}

BulkDB(k) ==
    [EmptyDB EXCEPT
        !.receipts = [key \in {<<"c1", ToString(i)>> : i \in 1..k} |->
                        [coordinator_pubkey |-> "c1", buyer_pubkey |-> "e1",
                         network |-> "mainnet", created_at |-> 1]],
        !.links = "e1" :> [master_pubkey |-> "m1", linked_at |-> 1]]

InitBulk ==
    \E k \in BulkCounts : \E days \in {INTERMEDIATE_DAYS, EXPERIENCED_DAYS} :
        InitWith(BulkDB(k), days * SECS_PER_DAY, MaxBulkEvents, MaxTicks, NoTierCall)

SpecBulk == InitBulk /\ [][Next]_vars

----------------------------------------------------------------------------
(* Receipts that arrive before the link: these runs start from the store   *)
(* that k receipt events for the unlinked e1 and its link request leave    *)
(* behind, at an age that meets the intermediate threshold.                *)

EarlyCounts == {BEGINNER_COUNT, BEGINNER_COUNT + 1, INTERMEDIATE_COUNT + 1}

EarlyDB(k) ==
    [BulkDB(k) EXCEPT
        !.links = EmptyTable,
        !.pending_link_requests = "e1" :> [master_pubkey |-> "m1", created_at |-> 1]]

InitEarly ==
    \E k \in EarlyCounts :
        InitWith(EarlyDB(k), INTERMEDIATE_DAYS * SECS_PER_DAY + 1, MaxEarlyEvents, MaxTicks,
                 NoTierCall)

SpecEarly == InitEarly /\ [][Next]_vars

----------------------------------------------------------------------------
(* A handshake about to complete beside a linked ephemeral: these runs     *)
(* start from the store that the handshake of e2 with m1 and the link      *)
(* request of e1 for m1 leave behind.                                      *)

FinalizeDB ==
    [EmptyDB EXCEPT
        !.links = "e2" :> [master_pubkey |-> "m1", linked_at |-> 1],
        !.pending_link_requests = "e1" :> [master_pubkey |-> "m1", created_at |-> 1]]

InitFinalize == InitWith(FinalizeDB, 1, MaxFinalizeEvents, MaxTicks, NoTierCall)

SpecFinalize == InitFinalize /\ [][Next]_vars

----------------------------------------------------------------------------
(* Badges over a run.  These runs start from the store that five receipts  *)
(* for e1 and the handshakes of e1 and of e2 with m1 leave behind, with    *)
(* the badges those handshakes published, and they record the badge sent   *)
(* last for each (ephemeral, network).  The clock stands still.            *)

QuiesceDB ==
    [BulkDB(BEGINNER_COUNT) EXCEPT
        !.links = ("e1" :> [master_pubkey |-> "m1", linked_at |-> 1])
                  @@ ("e2" :> [master_pubkey |-> "m1", linked_at |-> 1])]

\* the badges _publish_badges_for_new_link sent for e1 and for e2
QuiescePublished ==
    [on |-> TRUE,
     badge |-> [key \in {"e1", "e2"} \X {"mainnet", "testnet"} |->
                  LET sent == publish_badge_for_ephemeral(QuiesceDB, key[1], key[2], "m1", 1)
                  IN  [tier |-> sent.tier, reported |-> sent.reported]]]

InitQuiesce == InitTracking(QuiesceDB, 1, MaxQuiesceEvents, 0, NoTierCall, QuiescePublished)

NextQuiesce ==
    \/ \E event \in ReceiptEvents : ProcessReceipt(event)
    \/ \E event \in ReportEvents : ProcessReport(event)
    \/ \E event \in GiftWrapEvents : ProcessGiftWrap(event)
    \/ \E event \in OtherEvents : ProcessOther(event)
    \/ \E i \in 1..MaxTasks : ResumeTask(i)

SpecQuiesce == InitQuiesce /\ [][NextQuiesce]_vars

----------------------------------------------------------------------------
(* The tier function on its own: every combination of arguments around the *)
(* thresholds, then one call.                                              *)

TierCounts == {0, BEGINNER_COUNT, BEGINNER_COUNT + 1, INTERMEDIATE_COUNT,
               INTERMEDIATE_COUNT + 1, EXPERIENCED_COUNT, EXPERIENCED_COUNT + 1}

TierFirstTimes == {NoInt, <<0>>, <<1>>, <<SECS_PER_DAY>>, <<200 * SECS_PER_DAY>>}

TierNows == {0, INTERMEDIATE_DAYS * SECS_PER_DAY - 1, INTERMEDIATE_DAYS * SECS_PER_DAY,
             INTERMEDIATE_DAYS * SECS_PER_DAY + 1, EXPERIENCED_DAYS * SECS_PER_DAY,
             (EXPERIENCED_DAYS + 1) * SECS_PER_DAY}

InitTier ==
    \E c \in TierCounts : \E f \in TierFirstTimes : \E n \in TierNows :
        InitWith(EmptyDB, n, 0, 0,
                 [success_count |-> c, first_success_at |-> f, now |-> n, result |-> NoVal])

\* tier = _tier_from_success_count_and_age(count, first_success_at, now)
ComputeTier ==
    /\ tier_call.result = NoVal
    /\ tier_call' = [tier_call EXCEPT !.result =
            tier_from_success_count_and_age(tier_call.success_count,
                                            tier_call.first_success_at, tier_call.now)]
    /\ UNCHANGED <<store, now, tasks, outbox, budget, last, seen_requests, seen_confirms,
                   scheduled, faults, unwrap, shutdown, published>>

NextTier == ComputeTier

SpecTier == InitTier /\ [][NextTier]_vars

----------------------------------------------------------------------------
(* Properties *)

\* a step that processes one event
EventStep == budget'.events = budget.events - 1

\* the ephemeral-to-master mapping of the links table
LinkMap(db) == [e \in DOMAIN db.links |-> db.links[e].master_pubkey]

\* the database after a gift-wrap event is processed on db
AfterGiftWrap(db, event) == process_gift_wrap(db, event, now).db

HalvesSeen == seen_requests \cup seen_confirms

\* C1: a Link(E, M) is in the Store only if a link request authored by E that
\* names M and a link confirm authored by M that names E were both processed
\* before; a lone half or two halves naming different masters make no Link.
LinkHasBothHalves ==
    \A e \in DOMAIN links :
        /\ <<e, links[e].master_pubkey>> \in seen_requests
        /\ <<e, links[e].master_pubkey>> \in seen_confirms

\* C1 witness: a Link exists for an ephemeral for which a half naming another
\* master was processed as well
LinkBesideMismatchedHalf ==
    \E e \in DOMAIN links : \E m \in Masters :
        m # links[e].master_pubkey /\ <<e, m>> \in HalvesSeen

\* C2: from any Store with no pending rows for E, request-then-confirm and
\* confirm-then-request for the same master M both end with Link(E, M) and
\* with no pending row for E.
HandshakeCommutes ==
    \A e \in Ephemerals : \A m \in Masters : \A t1 \in {NoInt, <<2>>} : \A t2 \in {NoInt, <<2>>} :
        (e \notin DOMAIN pending_link_requests /\ e \notin DOMAIN pending_link_confirms)
        => LET request == LinkRequest(e, m, t1)
               confirm == LinkConfirm(m, e, t2)
               rc == AfterGiftWrap(AfterGiftWrap(DB, request), confirm)
               cr == AfterGiftWrap(AfterGiftWrap(DB, confirm), request)
           IN  /\ e \in DOMAIN rc.links /\ e \in DOMAIN cr.links
               /\ rc.links[e].master_pubkey = m
               /\ cr.links[e].master_pubkey = m
               /\ e \notin DOMAIN rc.pending_link_requests
               /\ e \notin DOMAIN rc.pending_link_confirms
               /\ e \notin DOMAIN cr.pending_link_requests
               /\ e \notin DOMAIN cr.pending_link_confirms

\* C2 witness: a confirm has just completed a handshake whose request came
\* first, leaving the Link and no pending row for the ephemeral
ConfirmCompletedHandshake ==
    /\ last.op = "confirm" /\ last.how = "finalized"
    /\ last.eph \in DOMAIN links
    /\ links[last.eph].master_pubkey = last.master
    /\ last.eph \notin DOMAIN pending_link_requests
    /\ last.eph \notin DOMAIN pending_link_confirms

\* C3: in every reachable Store, any two handshake payloads can be processed
\* in either order with the same resulting ephemeral-to-master mapping (so any
\* two orders of a collection end with the same Link table), also when they
\* name different masters for one ephemeral.
LinkTableOrderFree ==
    \A p \in HandshakeEvents : \A q \in HandshakeEvents :
        LinkMap(AfterGiftWrap(AfterGiftWrap(DB, p), q))
            = LinkMap(AfterGiftWrap(AfterGiftWrap(DB, q), p))

\* C4: a confirm for E processed while no request for E is pending makes no
\* Link and stays as the pending confirm; the matching request then writes
\* Link(E, M) and deletes both pending rows in the step that processes it.
OutOfOrderStep ==
    LET e == last'.eph
        m == last'.master
    IN  /\ (EventStep /\ last'.op = "confirm" /\ e \notin DOMAIN pending_link_requests)
            => /\ links' = links
               /\ e \in DOMAIN pending_link_confirms'
               /\ pending_link_confirms'[e].master_pubkey = m
        /\ (/\ EventStep /\ last'.op = "request"
            /\ e \in DOMAIN pending_link_confirms
            /\ pending_link_confirms[e].master_pubkey = m)
            => /\ e \in DOMAIN links'
               /\ links'[e].master_pubkey = m
               /\ e \notin DOMAIN pending_link_requests'
               /\ e \notin DOMAIN pending_link_confirms'

OutOfOrderHandshake == [][OutOfOrderStep]_vars

\* C4 witness: a request has just completed a handshake whose confirm came first
RequestCompletedHandshake ==
    /\ last.op = "request" /\ last.how = "finalized"
    /\ <<last.eph, last.master>> \in seen_confirms
    /\ last.eph \in DOMAIN links
    /\ links[last.eph].master_pubkey = last.master

\* C5: while the pending request and the pending confirm for E name different
\* masters, finalization writes no Link and deletes neither row; a later half
\* that overwrites one of them so that both name M1 finalizes Link(E, M1).
ConflictStep ==
    LET e == last'.eph
        m == last'.master
        conflict == /\ BothPending(DB, e)
                    /\ pending_link_requests[e].master_pubkey
                         # pending_link_confirms[e].master_pubkey
    IN  /\ (/\ EventStep /\ last'.op = "request"
            /\ e \in DOMAIN pending_link_confirms
            /\ pending_link_confirms[e].master_pubkey # m)
            => /\ links' = links
               /\ pending_link_confirms' = pending_link_confirms
               /\ e \in DOMAIN pending_link_requests'
               /\ pending_link_requests'[e].master_pubkey = m
        /\ (/\ EventStep /\ last'.op = "confirm"
            /\ e \in DOMAIN pending_link_requests
            /\ pending_link_requests[e].master_pubkey # m)
            => /\ links' = links
               /\ pending_link_requests' = pending_link_requests
               /\ e \in DOMAIN pending_link_confirms'
               /\ pending_link_confirms'[e].master_pubkey = m
        /\ (/\ EventStep /\ conflict
            /\ \/ last'.op = "request" /\ pending_link_confirms[e].master_pubkey = m
               \/ last'.op = "confirm" /\ pending_link_requests[e].master_pubkey = m)
            => /\ e \in DOMAIN links'
               /\ links'[e].master_pubkey = m
               /\ ~BothPending(DB', e)

ConflictingHalves == [][ConflictStep]_vars

\* C5 witness: three events were processed, a request naming M1 and a confirm
\* naming M2 met, and a corrected confirm naming M1 has just finalized the Link
ConflictResolved ==
    /\ budget.events = MaxEvents - 3
    /\ last.op = "confirm" /\ last.how = "finalized"
    /\ seen_requests = {<<last.eph, last.master>>}
    /\ \E m \in Masters \ {last.master} : <<last.eph, m>> \in seen_confirms
    /\ links[last.eph].master_pubkey = last.master

\* C6: processing a receipt or report event twice in succession leaves all
\* five tables as processing it once does.
IngestionIdempotent ==
    /\ \A event \in ReceiptEvents :
        LET once == process_receipt(DB, event).db
        IN  process_receipt(once, event).db = once
    /\ \A event \in ReportEvents :
        LET once == process_report(DB, event).db
        IN  process_report(once, event).db = once

\* C6 witness: a receipt whose key the Store already holds has just been
\* processed again
ReceiptSeenAgain ==
    /\ last.op = "receipt" /\ last.how = "duplicate"
    /\ DOMAIN receipts # {}

\* C7: every receipt row and every report row has a coordinator_pubkey of the
\* trusted-coordinator allowlist.
AuthorGating ==
    /\ \A k \in DOMAIN receipts : receipts[k].coordinator_pubkey \in TrustedCoordinators
    /\ \A k \in DOMAIN reports : reports[k].coordinator_pubkey \in TrustedCoordinators

\* C7 witness: an event of a coordinator outside the allowlist has just been
\* processed on a Store that holds rows
UntrustedEventProcessed ==
    /\ last.how = "untrusted"
    /\ DOMAIN receipts # {} /\ DOMAIN reports # {}

\* the TierFunction table of the badge publisher's contract: age_days is
\* max(0, floor((now - first_success_at) / 86400)), and 0 only for null
TierFunction(success_count, first_success_at, now_secs) ==
    LET age_days == IF first_success_at = NoInt THEN 0
                    ELSE Max(0, (now_secs - first_success_at[1]) \div SECS_PER_DAY)
    IN  IF success_count > EXPERIENCED_COUNT /\ age_days >= EXPERIENCED_DAYS
        THEN "experienced"
        ELSE IF success_count > INTERMEDIATE_COUNT /\ age_days >= INTERMEDIATE_DAYS
        THEN "intermediate"
        ELSE IF success_count > BEGINNER_COUNT
        THEN "beginner"
        ELSE "none"

\* none < beginner < intermediate < experienced
TierRank(tier) ==
    CASE tier = "none" -> 0
      [] tier = "beginner" -> 1
      [] tier = "intermediate" -> 2
      [] tier = "experienced" -> 3

\* the tier the notary computes for a master on a network at the current time
TierOfMaster(db, master_pubkey, network) ==
    tier_from_success_count_and_age(
        success_count_for_master(db, master_pubkey, network),
        first_success_at_for_master(db, master_pubkey, network), now)

\* C8: the tier computed for (success_count, first_success_at, now) is the
\* first matching row of the TierFunction table, with age_days taken from
\* every non-null first_success_at (0 and times later than now included).
TierMatchesTable ==
    tier_call.result # NoVal
    => tier_call.result = TierFunction(tier_call.success_count,
                                       tier_call.first_success_at, tier_call.now)

\* C9: a step that inserts one more receipt lowers no master's tier on any
\* network, the time being fixed.
ReceiptKeepsTierStep ==
    (EventStep /\ last'.op = "receipt" /\ last'.how = "inserted")
    => \A m \in Masters : \A i \in 1..Len(Networks) :
           TierRank(TierOfMaster(DB', m, Networks[i]))
               >= TierRank(TierOfMaster(DB, m, Networks[i]))

TierMonotoneUnderReceipts == [][ReceiptKeepsTierStep]_vars

\* C10: a badge just published for (E, N) carries the tier and the reported
\* flag that the badge publisher's contract yields on the Store at that
\* moment: with a master, TierFunction of the count and the minimum created_at
\* of the receipts on N of the ephemerals linked to the master, and reported
\* iff a report exists for one of those ephemerals on any network; without a
\* master, tier none and reported iff a report exists for E.
BadgeDeterminism ==
    (outbox # <<>> /\ outbox[1].kind = BADGE_KIND /\ last.call # <<>>)
    => LET badge == outbox[1]
           master_pubkey == last.call[1]
           linked == {e \in DOMAIN links : links[e].master_pubkey = master_pubkey}
           counted == {k \in DOMAIN receipts :
                          /\ receipts[k].network = badge.net
                          /\ receipts[k].buyer_pubkey \in linked}
           first_success_at ==
               IF counted = {} THEN NoInt
               ELSE <<SetMin({receipts[k].created_at : k \in counted})>>
       IN  IF master_pubkey # NoVal
           THEN /\ badge.tier = TierFunction(Cardinality(counted), first_success_at, now)
                /\ badge.reported
                     <=> (\E k \in DOMAIN reports : reports[k].buyer_pubkey \in linked)
           ELSE /\ badge.tier = "none"
                /\ badge.reported
                     <=> (\E k \in DOMAIN reports : reports[k].buyer_pubkey = badge.p)

\* the outcome of the handler of a receipt or report event on db
Ingest(db, event) ==
    IF event.kind = RECEIPT_KIND THEN process_receipt(db, event)
    ELSE process_report(db, event)

\* the handler publishes nothing
PublishesNothing(out) == PlanItems(out.db, out.plan) = {<<>>}

\* the three handshake tables
HandshakeTables(db) == <<db.links, db.pending_link_requests, db.pending_link_confirms>>

\* C13: processing a receipt or report event whose author is outside the
\* allowlist leaves every table unchanged and publishes no badge, whatever the
\* Store holds (the referenced ephemeral may be linked).
UntrustedIsDropped ==
    \A event \in ReceiptEvents \cup ReportEvents :
        Lower(event.author) \notin TrustedCoordinators
        => /\ Ingest(DB, event).db = DB
           /\ PublishesNothing(Ingest(DB, event))

\* C13 witness: a receipt of an untrusted author for the linked ephemeral e1
\* has just been processed and nothing was sent
UntrustedReceiptForLinked ==
    /\ last.op = "receipt" /\ last.how = "untrusted"
    /\ "e1" \in DOMAIN links
    /\ outbox = <<>>

\* C14: processing a receipt whose receipt_key, or a report whose report_key,
\* the Store already holds changes no table and publishes no badge, also when
\* buyer, network or created_at differ from the stored row.
DuplicateIsDropped ==
    /\ \A event \in ReceiptEvents :
        <<Lower(event.author), get_tag_value(event.tags, "d")>> \in DOMAIN receipts
        => /\ process_receipt(DB, event).db = DB
           /\ PublishesNothing(process_receipt(DB, event))
    /\ \A event \in ReportEvents :
        (/\ get_tag_value(event.tags, "p") # NoVal
         /\ <<Lower(event.author),
              Lower(OrDefault(get_tag_value(event.tags, "net"), "mainnet")),
              Lower(get_tag_value(event.tags, "p")),
              OrDefault(get_tag_value(event.tags, "report"), "scammer")>> \in DOMAIN reports)
        => /\ process_report(DB, event).db = DB
           /\ PublishesNothing(process_report(DB, event))

\* C14 witness: the receipt (c1, d1) is stored for buyer e1 and the event with
\* the same key for buyer e2 on testnet has just been processed as a duplicate
DuplicateWithOtherBuyer ==
    /\ last.op = "receipt" /\ last.how = "duplicate" /\ last.eph = "e2"
    /\ DOMAIN receipts = {<<"c1", "d1">>}
    /\ receipts[<<"c1", "d1">>].buyer_pubkey = "e1"
    /\ outbox = <<>>

\* C15: processing the same link request or link confirm payload twice in
\* succession leaves links and both pending tables as processing it once
\* does, whether or not the first processing finalized a Link.
HandshakeRetryIdempotent ==
    \A event \in HandshakeEvents :
        LET once == AfterGiftWrap(DB, event)
        IN  HandshakeTables(AfterGiftWrap(once, event)) = HandshakeTables(once)

\* C16: the Link of E holds the master of the finalized handshake with the
\* greatest created_at: after a handshake for m1 with created_at 2, a complete
\* handshake for m2 with the older created_at 1 does not replace Link(E, m1).
LastWriteWinsOnTimestamp ==
    \A e \in Ephemerals :
        (e \notin DOMAIN pending_link_requests /\ e \notin DOMAIN pending_link_confirms)
        => LET newer == AfterGiftWrap(AfterGiftWrap(DB, LinkRequest(e, "m1", <<2>>)),
                                      LinkConfirm("m1", e, <<2>>))
               older == AfterGiftWrap(AfterGiftWrap(newer, LinkRequest(e, "m2", <<1>>)),
                                      LinkConfirm("m2", e, <<1>>))
           IN  /\ newer.links[e].master_pubkey = "m1"
               /\ older.links[e].master_pubkey = "m1"

\* C12: receipts stored for E while E was unlinked are not lost: a badge
\* published with master M for an ephemeral linked to M has the tier that the
\* tier function gives for the count and the minimum created_at of all stored
\* receipts on its network of the ephemerals linked to M, those stored before
\* the Link included, whatever ran between the Link and the send.
EarlyReceiptsCounted ==
    (/\ outbox # <<>> /\ outbox[1].kind = BADGE_KIND
     /\ last.call # <<>> /\ last.call[1] # NoVal)
    => LET badge == outbox[1]
           master_pubkey == last.call[1]
           counted == {k \in DOMAIN receipts :
                          /\ receipts[k].network = badge.net
                          /\ receipts[k].buyer_pubkey \in DOMAIN links
                          /\ links[receipts[k].buyer_pubkey].master_pubkey = master_pubkey}
           first_success_at ==
               IF counted = {} THEN NoInt
               ELSE <<SetMin({receipts[k].created_at : k \in counted})>>
       IN  badge.tier = tier_from_success_count_and_age(Cardinality(counted),
                                                        first_success_at, now)

\* C12 witness: the confirm has just finalized Link(e1, m1) and the badge for
\* e1 is intermediate, which only the receipts stored before the Link explain
EarlyReceiptsMakeTier ==
    /\ last.op = "confirm" /\ last.how = "finalized" /\ last.eph = "e1"
    /\ outbox # <<>> /\ outbox[1].kind = BADGE_KIND
    /\ outbox[1].p = "e1" /\ outbox[1].tier = "intermediate"
    /\ \A k \in DOMAIN receipts : receipts[k].created_at < links["e1"].linked_at

\* the elements of a sequence
Range(seq) == {seq[i] : i \in 1..Len(seq)}

\* the ephemerals that db links to a master
LinkedTo(db, master_pubkey) ==
    {e \in DOMAIN db.links : db.links[e].master_pubkey = master_pubkey}

\* the suspended fan-outs once fan-out i has made its next publish call
Advance(i) ==
    IF Len(tasks[i]) > 1 THEN [tasks EXCEPT ![i] = Tail(tasks[i])]
    ELSE [j \in 1..(Len(tasks) - 1) |-> IF j < i THEN tasks[j] ELSE tasks[j + 1]]

\* A step that starts the handler of a report which is newly stored for an
\* ephemeral linked to a master M: the badge it sends and the publish calls it
\* leaves cover every ephemeral linked to M on both networks.
ReportCoverStep ==
    (/\ Len(scheduled') < Len(scheduled)
     /\ last'.op = "report" /\ last'.how = "inserted" /\ last'.master # NoVal)
    => /\ outbox' # <<>>
       /\ Len(tasks') = Len(tasks) + 1
       /\ {<<outbox'[1].p, outbox'[1].net>>}
            \cup {<<item[1], item[2]>> : item \in Range(tasks'[Len(tasks')])}
          = LinkedTo(DB', last'.master) \X {"mainnet", "testnet"}

\* a step that sends a badge of the fan-out of a report for a linked ephemeral
ReportBadgeStep ==
    /\ outbox' # <<>> /\ last'.origin # <<>> /\ last'.origin[1] = "report"
    /\ last'.call # <<>> /\ last'.call[1] # NoVal

\* C11: when a report for E is newly stored while E is linked to M, the
\* handler's fan-out covers every ephemeral linked to M on both networks and
\* each badge of that fan-out carries reported=1.
ReportPropagation ==
    [][ReportCoverStep /\ (ReportBadgeStep => outbox'[1].reported)]_vars

\* C11 amended: the same, for the badges of the fan-out that are sent while E
\* is still linked to M.
ReportPropagationWhileLinked ==
    [][/\ ReportCoverStep
       /\ (/\ ReportBadgeStep
           /\ last'.origin[2] \in LinkedTo(DB', last'.call[1]))
          => outbox'[1].reported]_vars

\* C11 witness: the fan-out of the report for e1 has resumed and has just sent
\* a badge for e2, the other ephemeral of the master, with reported=1
ReportReachedOtherEphemeral ==
    /\ last.op = "resume" /\ last.origin = <<"report", "e1">>
    /\ outbox # <<>> /\ outbox[1].p = "e2" /\ outbox[1].reported
    /\ last.call = <<"m1">>

\* C17: a step in which handle() runs changes no table and sends nothing; it
\* queues one more process_event task and returns False.
BridgeStep ==
    (budget'.events = budget.events - 1)
    => /\ UNCHANGED store
       /\ outbox' = <<>>
       /\ tasks' = tasks
       /\ Len(scheduled') = Len(scheduled) + 1
       /\ last'.op = "handle" /\ last'.how = "returned False"

CallbackBridging == [][BridgeStep]_vars

\* C17 witness: handle() has just returned for the receipt of e1; the task is
\* queued and the receipts table is still empty
ReceiptPostedNotProcessed ==
    /\ last.op = "handle"
    /\ scheduled = <<ReceiptEvent("c1", "d1", "e1", "mainnet", 1)>>
    /\ DOMAIN receipts = {}
    /\ outbox = <<>>

\* C18: no exception leaves process_event, whether a handler, a Store call or
\* a send raised, and the posted events are still processed afterwards.
FailuresStayInside ==
    /\ last.how # "raised"
    /\ \A event \in ServiceEvents : process_event(DB, event, now).how # "raised"

\* C18 witness: after a failure a report has been processed and stored
ProcessedAfterFailure ==
    /\ faults > 0
    /\ last.op = "report" /\ last.how = "inserted"
    /\ DOMAIN reports # {}

\* C19: when the send a fan-out waits for times out, the fan-out makes its
\* next publish call, keeps the calls after it, and no table changes.
TimeoutStep ==
    (last'.send = "timeout" /\ faults' = faults + 1)
    => /\ UNCHANGED store
       /\ \E i \in 1..Len(tasks) :
            /\ tasks' = Advance(i)
            /\ outbox' = <<publish_badge_for_ephemeral(DB, tasks[i][1][1], tasks[i][1][2],
                                                       tasks[i][1][3], now)>>

TimeoutAbsorbed == [][TimeoutStep]_vars

\* C19 witness: after a timeout the fan-out of the report has sent its last
\* badge and the report is still stored
FanOutFinishedAfterTimeout ==
    /\ faults > 0
    /\ last.op = "resume" /\ last.send = "ok" /\ last.origin = <<"report", "e1">>
    /\ tasks = <<>>
    /\ DOMAIN reports # {}

\* C20: a per-event task dropped after its Store calls and before its first
\* send has completed can be re-driven: processing the event again leaves the
\* Store as the first run left it and makes the publish calls of the first run.
RedriveSafe ==
    \A event \in ServiceEvents :
        LET run == process_event(DB, event, now)
            redo == process_event(run.db, event, now)
        IN  /\ redo.db = run.db
            /\ PlanItems(redo.db, redo.plan) = PlanItems(run.db, run.plan)

\* the subscription of start() that delivers an event
Subscription(event) ==
    CASE event.kind = RECEIPT_KIND -> "receipts"
      [] event.kind = REPORT_KIND -> "reports"
      [] event.kind = GIFT_WRAP_KIND -> "links"
      [] OTHER -> "none"

\* A step that applies the Store calls of an event's handler applies those of
\* the earliest-delivered event of its subscription that has not been applied.
ArrivalOrderStep ==
    /\ (Len(unwrap'.waiting) < Len(unwrap.waiting))
       => unwrap'.waiting = Tail(unwrap.waiting)
    /\ (Len(scheduled') < Len(scheduled) /\ unwrap'.waiting = unwrap.waiting)
       => \A i \in 1..Len(unwrap.waiting) :
            Subscription(unwrap.waiting[i]) # Subscription(Head(scheduled))

\* C21: for two events delivered on one subscription, the Store calls of the
\* earlier-delivered event are applied before those of the later-delivered
\* one, under every interleaving of the tasks at their suspension points, an
\* awaited gift-wrap unwrap included.
ArrivalOrderKept == [][ArrivalOrderStep]_vars

\* the badges an event's handler publishes on db when none of its sends is
\* interleaved with another task: one per publish call of its plan
Republished(db, event) ==
    LET out == process_event(db, event, now)
    IN  {publish_badge_for_ephemeral(out.db, item[1], item[2], item[3], now) :
            item \in UNION {Range(items) : items \in PlanItems(out.db, out.plan)}}

\* the Store after event a and then event b are processed on db
StoreInOrder(db, a, b) == process_event(process_event(db, a, now).db, b, now).db

\* the badges published last after event a and then event b run on db, each
\* to its end; a later badge for an (ephemeral, network) replaces the earlier
BadgesInOrder(db, a, b) ==
    LET first == Republished(db, a)
        second == Republished(process_event(db, a, now).db, b)
    IN  second \cup {x \in first : \A y \in second : <<y.p, y.net>> # <<x.p, x.net>>}

\* the receipt, report and handshake events whose network label, once
\* lowercased, is mainnet or testnet
LabelledEvents ==
    {event \in ReceiptEvents \cup ReportEvents :
        Lower(OrDefault(get_tag_value(event.tags, "net"), "mainnet")) \in Range(Networks)}
    \cup HandshakeEvents

\* pairs of events that arrive on different subscriptions
CrossSubscriptionPairs ==
    {pair \in ((ReceiptEvents \cap LabelledEvents) \X (ReportEvents \cap LabelledEvents))
                \cup ((ReceiptEvents \cup ReportEvents) \cap LabelledEvents) \X HandshakeEvents :
        Subscription(pair[1]) # Subscription(pair[2])}

\* two Stores with the same receipts and reports tables and the same
\* ephemeral-to-master mapping
SameTables(ab, ba) ==
    /\ ab.receipts = ba.receipts
    /\ ab.reports = ba.reports
    /\ LinkMap(ab) = LinkMap(ba)

StatsRequests ==
    {event \in GiftWrapEvents :
        /\ event.unwraps /\ event.rumor.content.json = "object"
        /\ event.rumor.content.type = STATS_REQUEST_TYPE}

ValidStatsRequest(event) ==
    LET payload == event.rumor.content
    IN  /\ is_hex_pubkey(payload.reply_pubkey)
        /\ Lower(OrDefault(payload.network, "mainnet")) \in Range(Networks)
        /\ payload.request_id # NotAString

\* C23: a valid stats request from sender S with reply_pubkey Q and network N
\* produces exactly one gift-wrapped response, addressed to Q, whose
\* success_count, tier and reported are the master-path values of the badge
\* publisher's contract for master S on N; request_id is echoed iff the
\* request carried one and first_success_at is present iff it is non-null.
StatsResponseRight ==
    \A event \in StatsRequests :
        ValidStatsRequest(event)
        => LET payload == event.rumor.content
               out == process_event(DB, event, now)
               S == Lower(event.rumor.author)
               N == Lower(OrDefault(payload.network, "mainnet"))
               counted == {k \in DOMAIN receipts :
                              /\ receipts[k].network = N
                              /\ receipts[k].buyer_pubkey \in LinkedTo(DB, S)}
               first_success_at ==
                   IF counted = {} THEN NoInt
                   ELSE <<SetMin({receipts[k].created_at : k \in counted})>>
           IN  /\ out.db = DB
               /\ PublishesNothing(out)
               /\ Len(out.stats) = 1
               /\ out.stats[1].kind = GIFT_WRAP_KIND
               /\ out.stats[1].receiver = Lower(payload.reply_pubkey)
               /\ out.stats[1].receiver # S
               /\ out.stats[1].payload.type = STATS_RESPONSE_TYPE
               /\ out.stats[1].payload.network = N
               /\ out.stats[1].payload.success_count = Cardinality(counted)
               /\ out.stats[1].payload.tier
                    = TierFunction(Cardinality(counted), first_success_at, now)
               /\ out.stats[1].payload.reported
                    <=> (\E k \in DOMAIN reports : reports[k].buyer_pubkey \in LinkedTo(DB, S))
               /\ out.stats[1].payload.request_id = payload.request_id
               /\ out.stats[1].payload.first_success_at = first_success_at

\* C24: every receipt row's and every report row's network, and the net tag
\* of every published badge, is mainnet or testnet, whatever net tag the
\* ingested events carried.
NetworkLabelsConstrained ==
    /\ \A k \in DOMAIN receipts : receipts[k].network \in Range(Networks)
    /\ \A k \in DOMAIN reports : reports[k].network \in Range(Networks)
    /\ \A i \in 1..Len(outbox) :
         outbox[i].kind = BADGE_KIND => outbox[i].net \in Range(Networks)

\* every receipt row and every report row of the Store is in the Store after
\* the step, with the same field values
AppendOnlyStep ==
    /\ \A k \in DOMAIN receipts : k \in DOMAIN receipts' /\ receipts'[k] = receipts[k]
    /\ \A k \in DOMAIN reports : k \in DOMAIN reports' /\ reports'[k] = reports[k]

\* C25: receipts and reports are append-only: a row that is in the Store is
\* there with identical field values in every later state, whatever events
\* follow (the same key with another buyer, network or created_at, link
\* finalization, relinking).
RowsAppendOnly == [][AppendOnlyStep]_vars

\* C25 witness: the receipt (c1, d1) was stored for buyer e2 on testnet, an
\* event with the same key for buyer e1 has just been processed, and the row
\* still names e2 on testnet
FirstReceiptKept ==
    /\ last.op = "receipt" /\ last.how = "duplicate" /\ last.eph = "e1"
    /\ <<"c1", "d1">> \in DOMAIN receipts
    /\ receipts[<<"c1", "d1">>].buyer_pubkey = "e2"
    /\ receipts[<<"c1", "d1">>].network = "testnet"

\* the (ephemeral, network) pairs of the publish calls a handler has just
\* started: the badge it sent and the calls of the fan-out it left suspended
CallsStarted ==
    (IF outbox' = <<>> THEN {} ELSE {<<outbox'[1].p, outbox'[1].net>>})
    \cup (IF Len(tasks') > Len(tasks)
          THEN {<<item[1], item[2]>> : item \in Range(tasks'[Len(tasks')])}
          ELSE {})

\* A step that processes a gift wrap: if it finalizes Link(E, M) and a report
\* exists for an ephemeral linked to M, its publish calls are one per
\* ephemeral linked to M and network; if it finalizes and no such report
\* exists, they are (E, mainnet) and (E, testnet); if it finalizes no Link, it
\* makes none.
FinalizePublishStep ==
    (EventStep /\ last'.op \in {"request", "confirm", "giftwrap"})
    => LET E == last'.eph
           M == last'.master
           reported == \E k \in DOMAIN reports' :
                          reports'[k].buyer_pubkey \in LinkedTo(DB', M)
           targets == (IF reported THEN LinkedTo(DB', M) ELSE {E}) \X Range(Networks)
       IN  IF last'.how = "finalized"
           THEN /\ E \in LinkedTo(DB', M)
                /\ CallsStarted = targets
                /\ Len(tasks') = Len(tasks) + 1
                /\ 1 + Len(tasks'[Len(tasks')]) = Cardinality(targets)
           ELSE outbox' = <<>> /\ tasks' = tasks

\* C26: on finalization of Link(E, M), badges are published for all
\* ephemerals linked to M on both networks if M is reported at that moment
\* (through any linked ephemeral, E and reports stored while E was unlinked
\* included), otherwise exactly for E on both networks; when no Link is
\* finalized, no badge is published.
FinalizationPublishes == [][FinalizePublishStep]_vars

\* C26 witness: the report for e1 was stored while e1 was unlinked, the
\* confirm has just finalized Link(e1, m1), and the fan-out covers e1 and e2,
\* the other ephemeral of m1, on both networks
FinalizedReportedFansOut ==
    /\ last.op = "confirm" /\ last.how = "finalized" /\ last.eph = "e1"
    /\ \E k \in DOMAIN reports : reports[k].buyer_pubkey = "e1"
    /\ LinkedTo(DB, "m1") = {"e1", "e2"}
    /\ outbox # <<>> /\ tasks # <<>> /\ Len(tasks[Len(tasks)]) = 3

\* A step that stores a new report for an ephemeral E with no Link starts
\* exactly the publish calls (E, mainnet) and (E, testnet); every badge of
\* those calls has tier none and reported=1.
UnlinkedReportStep ==
    /\ (/\ EventStep /\ last'.op = "report" /\ last'.how = "inserted"
        /\ last'.master = NoVal)
       => /\ CallsStarted = {last'.eph} \X Range(Networks)
          /\ Len(tasks') = Len(tasks) + 1
          /\ Len(tasks'[Len(tasks')]) = 1
    /\ (/\ outbox' # <<>> /\ last'.origin # <<>> /\ last'.origin[1] = "report"
        /\ last'.call = <<NoVal>>)
       => /\ outbox'[1].p = last'.origin[2]
          /\ outbox'[1].tier = "none"
          /\ outbox'[1].reported

\* C27: a newly stored report for an ephemeral E that has no Link causes
\* exactly two badges, (E, mainnet) and (E, testnet), each with tier none and
\* reported=1, whatever network the report named and whatever receipts exist
\* for E.
UnlinkedReportPublishes == [][UnlinkedReportStep]_vars

\* C27 witness: a receipt is stored for e1, the report for the unlinked e1 was
\* stored, and its second badge, (e1, testnet), has just been sent with tier
\* none and reported=1
UnlinkedReportSecondBadge ==
    /\ last.op = "resume" /\ last.origin = <<"report", "e1">> /\ last.call = <<NoVal>>
    /\ outbox # <<>> /\ outbox[1].net = "testnet" /\ outbox[1].p = "e1"
    /\ outbox[1].tier = "none" /\ outbox[1].reported
    /\ \E k \in DOMAIN receipts : receipts[k].buyer_pubkey = "e1"

\* A step that processes a receipt: if the receipt is newly stored on network
\* N for a linked buyer E, the step sends the badge (E, N) and starts no other
\* publish call; otherwise it sends nothing.
ReceiptPublishStep ==
    (EventStep /\ last'.op = "receipt")
    => IF last'.how = "inserted" /\ last'.eph \in DOMAIN links
       THEN /\ tasks' = tasks
            /\ Len(outbox') = 1
            /\ \E k \in DOMAIN receipts' \ DOMAIN receipts :
                 /\ receipts'[k].buyer_pubkey = last'.eph
                 /\ CallsStarted = {<<last'.eph, receipts'[k].network>>}
       ELSE outbox' = <<>> /\ tasks' = tasks

\* C28: a newly stored receipt for a linked buyer E on network N causes
\* exactly one badge, for (E, N), none on the other network and none for any
\* other ephemeral of the same master; a newly stored receipt for an unlinked
\* buyer causes no badge.
ReceiptPublishesOwnNetwork == [][ReceiptPublishStep]_vars

\* C28 witness: e1 and e2 are linked to m1, a receipt for e2 has just been
\* stored, and the only badge sent is for e2
ReceiptBadgeBesideSibling ==
    /\ last.op = "receipt" /\ last.how = "inserted" /\ last.eph = "e2"
    /\ LinkedTo(DB, "m1") = {"e1", "e2"}
    /\ Len(outbox) = 1 /\ outbox[1].p = "e2"
    /\ tasks = <<>>

\* network labels a badge can be published for: the two networks, a label the
\* receipt path lets through, and labels that hold a colon
BadgeLabels == {"mainnet", "testnet", "signet", "x", "x:e1"}

\* C29: every published badge has kind 38385, empty content, and the tags
\* d = network + ":" + ephemeral, p = ephemeral, tier, net = network, v = 1,
\* plus a reported tag with value 1 iff the computed reported flag is true; two
\* badges carry the same d tag exactly when they are for the same (network,
\* ephemeral).
BadgeFormat ==
    /\ \A i \in 1..Len(outbox) :
         outbox[i].kind # GIFT_WRAP_KIND
         => LET badge == outbox[i]
            IN  /\ badge.kind = 38385
                /\ badge.content = ""
                /\ get_tag_value(badge.tags, "d") = Chars(badge.net) \o <<":">> \o Chars(badge.p)
                /\ get_tag_value(badge.tags, "p") = badge.p
                /\ get_tag_value(badge.tags, "tier") = badge.tier
                /\ badge.tier \in {"none", "beginner", "intermediate", "experienced"}
                /\ get_tag_value(badge.tags, "net") = badge.net
                /\ get_tag_value(badge.tags, "v") = "1"
                /\ badge.reported <=> get_tag_value(badge.tags, "reported") = "1"
                /\ ~badge.reported => get_tag_value(badge.tags, "reported") = NoVal
                /\ Len(badge.tags) = IF badge.reported THEN 6 ELSE 5
    /\ \A n1 \in BadgeLabels : \A n2 \in BadgeLabels :
         \A e1 \in Ephemerals : \A e2 \in Ephemerals :
            (get_tag_value(publish_badge_for_ephemeral(DB, e1, n1, NoVal, now).tags, "d")
               = get_tag_value(publish_badge_for_ephemeral(DB, e2, n2, NoVal, now).tags, "d"))
            <=> (n1 = n2 /\ e1 = e2)

\* C29 witness: a badge for testnet with the reported tag has just been sent
ReportedTestnetBadgeSent ==
    /\ outbox # <<>> /\ outbox[1].kind = BADGE_KIND
    /\ get_tag_value(outbox[1].tags, "net") = "testnet"
    /\ get_tag_value(outbox[1].tags, "reported") = "1"
    /\ get_tag_value(outbox[1].tags, "d") = <<"testnet", ":", outbox[1].p>>

\* the inputs that are to be dropped: an event of a kind with no handler, a
\* receipt with a missing d tag or a missing or non-64-hex p tag, a report with
\* a missing or non-64-hex p tag, a gift wrap that fails to unwrap, a rumor
\* whose content is not valid JSON or has an unknown type, and a link request
\* or confirm whose named pubkey is not 64-hex
IsDroppedInput(event) ==
    \/ event.kind \notin {38384, 38386, 1059}
    \/ /\ event.kind = 38384
       /\ \/ get_tag_value(event.tags, "d") = NoVal
          \/ get_tag_value(event.tags, "p") \notin HexStrings
    \/ /\ event.kind = 38386
       /\ get_tag_value(event.tags, "p") \notin HexStrings
    \/ /\ event.kind = 1059
       /\ \/ ~event.unwraps
          \/ event.rumor.content.json = "invalid"
          \/ /\ event.rumor.content.json = "object"
             /\ event.rumor.content.type
                  \notin {LINK_REQUEST_TYPE, LINK_CONFIRM_TYPE, STATS_REQUEST_TYPE}
          \/ /\ event.rumor.content.json = "object"
             /\ event.rumor.content.type = LINK_REQUEST_TYPE
             /\ event.rumor.content.master_pubkey \notin HexStrings
          \/ /\ event.rumor.content.json = "object"
             /\ event.rumor.content.type = LINK_CONFIRM_TYPE
             /\ event.rumor.content.ephemeral_pubkey \notin HexStrings

\* C30: each dropped input leaves every Store table unchanged and causes no
\* badge and no stats response, whatever the Store holds.
DroppedInputsChangeNothing ==
    \A event \in ReceiptEvents \cup ReportEvents \cup GiftWrapEvents \cup OtherEvents :
        IsDroppedInput(event)
        => LET out == process_event(DB, event, now)
           IN  /\ out.db = DB
               /\ PublishesNothing(out)
               /\ out.stats = <<>>

\* C30 witness: a receipt with a bad tag has just been processed on a Store
\* that holds a receipt and a pending row, and nothing was sent
MalformedReceiptDropped ==
    /\ last.op = "receipt" /\ last.how = "malformed"
    /\ DOMAIN receipts # {}
    /\ DOMAIN pending_link_requests # {}
    /\ outbox = <<>>

\* C31: processing a stats request changes no Store table and publishes no
\* badge, and it sends a response only when reply_pubkey is a 64-hex string,
\* the network (default mainnet, lowercased) is mainnet or testnet, and
\* request_id is absent or a string; when one of these checks fails nothing
\* is sent.
StatsRequestGuarded ==
    /\ \A event \in StatsRequests :
         LET payload == event.rumor.content
             out == process_event(DB, event, now)
             valid == /\ payload.reply_pubkey \in HexStrings
                      /\ Lower(OrDefault(payload.network, "mainnet")) \in {"mainnet", "testnet"}
                      /\ payload.request_id # NotAString
         IN  /\ out.db = DB
             /\ PublishesNothing(out)
             /\ Len(out.stats) = IF valid THEN 1 ELSE 0
    /\ \A i \in 1..Len(outbox) :
         outbox[i].kind = GIFT_WRAP_KIND => last.op = "stats" /\ last.how = "sent"

\* C31 witness: a stats request of m1, which has an ephemeral linked, has
\* just been answered to the reply key and the Link is still there
StatsRequestAnswered ==
    /\ last.op = "stats" /\ last.how = "sent" /\ last.master = "m1"
    /\ Len(outbox) = 1 /\ outbox[1].kind = GIFT_WRAP_KIND
    /\ outbox[1].receiver = ReplyKey
    /\ LinkedTo(DB, "m1") # {}

\* the calls of a complete stop(), in order
StopOrder == <<"cancel", "unsubscribe_all", "disconnect", "close">>

\* C32: stop() makes its calls in the order cancel of the notifications task
\* (when there is one), unsubscribe-all, disconnect, close of the Store; a
\* call that raises does not keep stop() from the calls after it, no exception
\* leaves stop(), and when stop() has returned the Store has been closed.
ShutdownBestEffort ==
    /\ \E k \in 0..Len(StopOrder) :
         shutdown.calls \in {SubSeq(StopOrder, 1, k), SubSeq(StopOrder, 2, k)}
    /\ shutdown.pc # "raised"
    /\ "unsubscribe_all" \in shutdown.raised => "disconnect" \in Range(shutdown.calls)
    /\ "disconnect" \in shutdown.raised => "close" \in Range(shutdown.calls)
    /\ shutdown.pc = "stopped"
       => /\ shutdown.calls # <<>>
          /\ shutdown.calls[Len(shutdown.calls)] = "close"
          /\ {"unsubscribe_all", "disconnect", "close"} \subseteq Range(shutdown.calls)

\* C32 witness: stop() has returned after unsubscribe-all and disconnect both
\* raised, and all four calls were made
StoppedAfterFailures ==
    /\ shutdown.pc = "stopped"
    /\ shutdown.raised = {"unsubscribe_all", "disconnect"}
    /\ shutdown.calls = StopOrder

\* C33: whenever no handler is in the middle of its Store calls, no ephemeral
\* has both a pending link request and a pending link confirm that name the
\* same master: the step that completes a matching pair turns it into a Link,
\* under every interleaving of the per-event tasks.
NoMatchingPairPending ==
    \A e \in DOMAIN pending_link_requests \cap DOMAIN pending_link_confirms :
        pending_link_requests[e].master_pubkey # pending_link_confirms[e].master_pubkey

\* C33 witness: the second half of the handshake of e1 with m2 has just been
\* processed while another task was suspended; the Link is written and no
\* pending row for e1 is left
PairConsumedBesideTask ==
    /\ last.op \in {"request", "confirm"} /\ last.how = "finalized" /\ last.eph = "e1"
    /\ <<"e1", "m2">> \in seen_requests /\ <<"e1", "m2">> \in seen_confirms
    /\ links["e1"].master_pubkey = "m2"
    /\ "e1" \notin DOMAIN pending_link_requests \cup DOMAIN pending_link_confirms
    /\ Len(tasks) > 1

\* C34: every badge published for an ephemeral E that has a Link is computed
\* with the master the Store links to E at the moment the badge is computed,
\* also when a handshake relinked E between two sends of a fan-out.
BadgeUsesCurrentMaster ==
    (/\ outbox # <<>> /\ outbox[1].kind = BADGE_KIND /\ last.call # <<>>
     /\ outbox[1].p \in DOMAIN links)
    => last.call[1] = links[outbox[1].p].master_pubkey

\* every delivered event has been processed to its end and no send has failed
Quiescent ==
    /\ tasks = <<>> /\ scheduled = <<>> /\ unwrap.waiting = <<>>
    /\ faults = 0

\* C35: at quiescence, for every ephemeral E that has a Link and every
\* network N for which a badge of E was published, the badge published last
\* for (E, N) carries the tier and the reported flag that the badge publisher
\* computes on the final Store for the master E is linked to, also when the
\* last change of that master's statistics concerned another of its
\* ephemerals.
BadgesCurrentAtQuiescence ==
    Quiescent
    => \A key \in DOMAIN published.badge :
         key[1] \in DOMAIN links
         => LET current == publish_badge_for_ephemeral(DB, key[1], key[2],
                                                       links[key[1]].master_pubkey, now)
            IN  /\ published.badge[key].tier = current.tier
                /\ published.badge[key].reported = current.reported

\* C36: once a report whose buyer_pubkey is E is in the Store, every badge
\* published for E carries reported=1, on either network, with or without a
\* Link and whichever master E is linked or relinked to.
DirectReportSticky ==
    \A i \in 1..Len(outbox) :
        (/\ outbox[i].kind = BADGE_KIND
         /\ \E k \in DOMAIN reports : reports[k].buyer_pubkey = outbox[i].p)
        => outbox[i].reported

RECURSIVE SumCounts(_, _, _)
\* the sum of success_count_for_master on a network over a set of masters
SumCounts(db, masters, network) ==
    IF masters = {} THEN 0
    ELSE LET m == CHOOSE x \in masters : TRUE
         IN  success_count_for_master(db, m, network) + SumCounts(db, masters \ {m}, network)

\* C37: no receipt is counted for two masters: each ephemeral is linked to at
\* most one master, on every network the sum over all masters of
\* success_count is at most the number of stored receipts on that network,
\* and the receipts of an ephemeral count for no master but the one it is
\* linked to, also after a relink.
NoDoubleCounting ==
    LET masters == Masters \cup {links[e].master_pubkey : e \in DOMAIN links}
        nets == Range(Networks) \cup {receipts[k].network : k \in DOMAIN receipts}
        stored(n) == {k \in DOMAIN receipts : receipts[k].network = n}
    IN  /\ \A e \in DOMAIN links :
             Cardinality({m \in masters : e \in list_ephemerals_for_master(DB, m)}) = 1
        /\ \A n \in nets : SumCounts(DB, masters, n) <= Cardinality(stored(n))
        /\ \A e \in DOMAIN links : \A m \in masters \ {links[e].master_pubkey} : \A n \in nets :
             success_count_for_master(DB, m, n)
                <= Cardinality({k \in stored(n) : receipts[k].buyer_pubkey # e})

\* C37 witness: e1, whose receipt is stored, was linked to m1 and has been
\* relinked to m2; the receipt counts for m2 and no longer for m1
ReceiptMovedWithRelink ==
    /\ <<"e1", "m1">> \in seen_confirms
    /\ "e1" \in DOMAIN links /\ links["e1"].master_pubkey = "m2"
    /\ \E k \in DOMAIN receipts : receipts[k].buyer_pubkey = "e1"
    /\ success_count_for_master(DB, "m2", "mainnet") = 1
    /\ success_count_for_master(DB, "m1", "mainnet") = 0

====
